---- MODULE Spec2Model ----
(***************************************************************************)
(* A model of the memo command-line tool (src/src/main.c) and of the       *)
(* vector index it is built on (src/src/vectordb.c).                       *)
(*                                                                         *)
(* Conventions.                                                            *)
(*  - A C string is a sequence of byte codes (97 is 'a'); a file is a      *)
(*    record [exists, data] whose data is the sequence of the values       *)
(*    written to it, one element per fwrite'd int, u64, f32 or byte.       *)
(*  - A C array is a sequence holding its live prefix (rows 0..count-1);   *)
(*    C position i is element i+1.                                         *)
(*  - f32 values are small integers; the vectors embed_text_llm can emit   *)
(*    (unit norm, or zero) are the 0/1 vectors with at most one 1.         *)
(*  - Each command of the tool is one process: an action loads the files,  *)
(*    runs the command's branch of main and leaves the stores as they were *)
(*    when the process ended.                                              *)
(*  - A record constructor lists its fields in the order TLC keeps them    *)
(*    in (the order in which the names first occur in the module), not in  *)
(*    the order of the C struct.                                           *)
(***************************************************************************)
EXTENDS Integers, Sequences, FiniteSets, TLC

VARIABLES
    idxFile,    \* <base>.memo
    txtFile,    \* <base>.txt
    metaFile,   \* <base>.meta
    index,      \* VDB_Index of the running process
    ts,         \* TextStore of the running process
    ms,         \* MetaStore of the running process
    index0,     \* the index as it was when the operation started
    ts0,        \* the text store as it was when the operation started
    ms0,        \* the metadata store as it was when the operation started
    prevFiles,  \* <<idxFile, txtFile, metaFile>> when the operation started
    op,         \* the operation that ran last
    args,       \* its arguments
    exitCode,   \* the process's exit code (-1: none yet)
    out,        \* what it printed on stdout
    err,        \* what it printed on stderr
    results,    \* the VDB_Result buffer VDB_Search filled
    tokenizer,  \* the Tokenizer of the running process
    arena,      \* the Arena of the running process and what lives in it
    run_state,  \* the RunState of the forward pass: KV cache and calls made
    gpu         \* the Vulkan queue: submissions, buffers and who waits

vars == <<idxFile, txtFile, metaFile, index, ts, ms, index0, ts0, ms0,
          prevFiles, op, args, exitCode, out, err, results, tokenizer,
          arena, run_state, gpu>>

(***************************************************************************)
(* Bounds.  The program's sizes are scaled down: DIM is 768 (main.c:27),   *)
(* both capacities are 10000 (main.c:336, main.c:450) and VDB_Index_Load   *)
(* leaves room for 1000 more rows (vectordb.c:161).                        *)
(***************************************************************************)
DIM == 2
INDEX_CAPACITY == 2
TEXT_CAPACITY == 2
LOAD_ROOM == 1
MaxK == 3

\* vectordb.h: enum VDB_Metric
VDB_METRIC_L2 == 0
VDB_METRIC_COSINE == 1
VDB_METRIC_DOT == 2

\* Byte codes the source names as character literals.
CH_SPACE == 32
CH_PLUS == 43
CH_MINUS == 45
CH_0 == 48
CH_9 == 57

\* A decimal digit.
IsDigit(c) == c >= CH_0 /\ c <= CH_9

\* The value of a string of digits.
RECURSIVE DigitsValue(_)
DigitsValue(s) ==
    IF s = <<>> THEN 0
    ELSE 10 * DigitsValue(SubSeq(s, 1, Len(s) - 1)) + (s[Len(s)] - CH_0)

\* F applied to the value of x, which is computed once.
Force(x, F(_)) == CHOOSE y \in { F(v) : v \in {x} } : TRUE

Min(a, b) == IF a < b THEN a ELSE b

NoFile == [exists |-> FALSE, data |-> <<>>]
File(d) == [exists |-> TRUE, data |-> d]

\* The concatenation of a sequence of sequences.
RECURSIVE Flatten(_)
Flatten(ss) == IF ss = <<>> THEN <<>> ELSE Head(ss) \o Flatten(Tail(ss))

(***************************************************************************)
(* Vector index: src/src/vectordb.c                                        *)
(***************************************************************************)
VDB_Index_Create(dim, metric, capacity) ==
    [dim |-> dim,
     metric |-> metric,
     capacity |-> capacity,
     count |-> 0,
     ids |-> <<>>,
     vectors |-> <<>>]

\* A slip that stores the row's vector but not its id.
VDB_Index_Add_IdZero(idx, id, vector) ==
    IF idx.count >= idx.capacity THEN idx
    ELSE [idx EXCEPT !.ids = Append(@, 0),
                     !.vectors = @ \o SubSeq(vector, 1, idx.dim),
                     !.count = @ + 1]

\* The index after VDB_Index_Add(idx, id, vector); the function returns void.
VDB_Index_Add(idx, id, vector) ==
    IF idx.count >= idx.capacity THEN idx
    ELSE [idx EXCEPT !.ids = Append(@, id),
                     !.vectors = @ \o SubSeq(vector, 1, idx.dim),
                     !.count = @ + 1]

\* What VDB_Index_Add writes on stderr.
VDB_Index_Add_stderr(idx) ==
    IF idx.count >= idx.capacity THEN <<"VDB Error: Index full">> ELSE <<>>

\* The file after VDB_Index_Save; fopenOk is whether fopen(filename, "wb") succeeds.
VDB_Index_Save(idx, file, fopenOk) ==
    IF ~fopenOk THEN file
    ELSE File(<<idx.dim, idx.count, idx.metric>>
              \o SubSeq(idx.ids, 1, idx.count)
              \o SubSeq(idx.vectors, 1, idx.count * idx.dim))

\* Whether VDB_Index_Load returns an index (not NULL): the file opens and
\* holds the three header ints.
VDB_Index_Load_ok(file) == file.exists /\ Len(file.data) >= 3

\* A slip that sizes the loaded index for the rows of the file and no more.
VDB_Index_Load_NoRoom(file) ==
    LET dim    == file.data[1]
        count  == file.data[2]
        metric == file.data[3]
        idx    == VDB_Index_Create(dim, metric, count)
    IN  [idx EXCEPT !.count = count,
                    !.ids = SubSeq(file.data, 4, 3 + count),
                    !.vectors = SubSeq(file.data, 4 + count, 3 + count + count * dim)]

\* A slip that loads every index as a cosine index.
VDB_Index_Load_CosineOnly(file) ==
    LET dim    == file.data[1]
        count  == file.data[2]
        idx    == VDB_Index_Create(dim, VDB_METRIC_COSINE, count + LOAD_ROOM)
    IN  [idx EXCEPT !.count = count,
                    !.ids = SubSeq(file.data, 4, 3 + count),
                    !.vectors = SubSeq(file.data, 4 + count, 3 + count + count * dim)]

\* The index VDB_Index_Load returns when it does not return NULL.
VDB_Index_Load(file) ==
    LET dim    == file.data[1]
        count  == file.data[2]
        metric == file.data[3]
        idx    == VDB_Index_Create(dim, metric, count + LOAD_ROOM)
    IN  [idx EXCEPT !.count = count,
                    !.ids = SubSeq(file.data, 4, 3 + count),
                    !.vectors = SubSeq(file.data, 4 + count, 3 + count + count * dim)]

(***************************************************************************)
(* Text store: src/src/main.c                                              *)
(***************************************************************************)
TextStore_Init(capacity) == [capacity |-> capacity, count |-> 0, lines |-> <<>>]

\* The id TextStore_Add returns; -1 stands for (u64)-1.
TextStore_Add_ret(t, text) == IF t.count >= t.capacity THEN -1 ELSE t.count

\* The store after TextStore_Add.
TextStore_Add(t, text) ==
    IF t.count >= t.capacity THEN t
    ELSE [t EXCEPT !.lines = Append(SubSeq(@, 1, t.count), text), !.count = @ + 1]

\* The store after TextStore_Set.
TextStore_Set(t, id, text) ==
    IF id < 0 \/ id >= t.count THEN t
    ELSE [t EXCEPT !.lines[id + 1] = text]

\* One row of the text file: its length, then its bytes.
TextRow(s) == <<Len(s)>> \o s

\* The file after TextStore_Save.
TextStore_Save(t, file, fopenOk) ==
    IF ~fopenOk THEN file
    ELSE File(<<t.count>> \o Flatten([i \in 1..t.count |-> TextRow(t.lines[i])]))

\* The strings TextStore_Load reads: n rows starting at element p of d.
RECURSIVE ReadRows(_, _, _)
ReadRows(d, p, n) ==
    IF n = 0 THEN <<>>
    ELSE LET len == d[p]
         IN  <<SubSeq(d, p + 1, p + len)>> \o ReadRows(d, p + 1 + len, n - 1)

\* The store after TextStore_Load, which appends the file's rows at t.count.
TextStore_Load(t, file) ==
    IF ~file.exists \/ Len(file.data) < 1 THEN t
    ELSE LET count == file.data[1]
         IN  [t EXCEPT !.lines = SubSeq(@, 1, t.count) \o ReadRows(file.data, 2, count),
                       !.count = @ + count]

\* The score VDB_Search writes into a slot it has no row for (-1.0f).
PAD_SCORE == -1
Pad == [id |-> 0, score |-> PAD_SCORE]

\* A filter mask: NULL, or one byte per row.
NoMask == [given |-> FALSE, bits |-> <<>>]
Mask(bits) == [given |-> TRUE, bits |-> bits]

\* The Similarity pipeline's score of one row against the query: the dot
\* product, which is the cosine of vectors of unit norm.
RECURSIVE Similarity(_, _, _)
Similarity(metric_id, row, q) ==
    IF row = <<>> THEN 0
    ELSE Head(row) * Head(q) + Similarity(metric_id, Tail(row), Tail(q))

\* compare_results: qsort's comparison, for descending score.
compare_results(r1, r2) ==
    IF r2.score > r1.score THEN 1
    ELSE IF r2.score < r1.score THEN -1
    ELSE 0

\* The orders of 1..n.
Orders(n) == { f \in [1..n -> 1..n] : \A i, j \in 1..n : f[i] = f[j] => i = j }

\* A slip that leaves the results in the order they were scored.
QsortOutcomes_Unsorted(all) == { all }

\* What qsort(all, n, ..., compare_results) may leave in the array: any
\* order of its elements that the comparison accepts; the order of elements
\* that compare equal is unspecified.
QsortOutcomes(all) ==
    { [i \in 1..Len(all) |-> all[f[i]]] : f \in
        { g \in Orders(Len(all)) :
            \A i, j \in 1..Len(all) :
                i < j => compare_results(all[g[i]], all[g[j]]) <= 0 } }

\* A slip that searches every row although a mask is given.
SearchRows_IgnoreMask(idx, mask) == [i \in 1..idx.count |-> i]

\* The rows VDB_Search scores, in the order it compacts them: those whose
\* mask byte is set, or every row when no mask is given.
RECURSIVE SearchRowsFrom(_, _, _)
SearchRowsFrom(idx, mask, i) ==
    IF i > idx.count THEN <<>>
    ELSE (IF mask.bits[i] # 0 THEN <<i>> ELSE <<>>) \o SearchRowsFrom(idx, mask, i + 1)

SearchRows(idx, mask) ==
    IF mask.given THEN SearchRowsFrom(idx, mask, 1)
    ELSE [i \in 1..idx.count |-> i]

\* all_results before the sort: the id and the downloaded score of each
\* searched row.
AllResults(idx, query_vec, mask) ==
    LET rows      == SearchRows(idx, mask)
        metric_id == IF idx.metric = VDB_METRIC_DOT THEN 2 ELSE 1
    IN  [j \in 1..Len(rows) |->
            [id    |-> idx.ids[rows[j]],
             score |-> Similarity(metric_id,
                                  SubSeq(idx.vectors, (rows[j] - 1) * idx.dim + 1,
                                         rows[j] * idx.dim),
                                  query_vec)]]

\* The k result slots VDB_Search fills, given the array qsort left.
VDB_Search(idx, query_vec, k, mask, sorted) ==
    LET n_search == Len(SearchRows(idx, mask))
        n        == IF k < n_search THEN k ELSE n_search
    IN  IF mask.given /\ n_search = 0
        THEN [i \in 1..k |-> Pad]
        ELSE [i \in 1..k |-> IF i <= n THEN sorted[i] ELSE Pad]

\* The arrays VDB_Search works on besides the index: with a mask it copies
\* the surviving rows into arrays of its own, without one search_vecs and
\* search_ids are the arrays of the index themselves (lines 76-94).
VDB_Search_vecs(mask) == IF mask.given THEN "search_vecs" ELSE "idx->vectors"
VDB_Search_ids(mask) == IF mask.given THEN "search_ids" ELSE "idx->ids"

\* What VDB_Search writes: the results of the caller and, past the early
\* return, its own arrays and the buffers of the GPU; the copies of the
\* rows only when a mask is given.
VDB_Search_writes(idx, mask) ==
    IF mask.given /\ Len(SearchRows(idx, mask)) = 0 THEN {"results"}
    ELSE {"results", "all_results", "gpu_scores", "index_buffer",
          "query_buffer"}
         \cup (IF mask.given
               THEN {VDB_Search_vecs(mask), VDB_Search_ids(mask)} ELSE {})

\* A slip that frees search_vecs and search_ids whether or not they are
\* copies.
VDB_Search_frees_Always(idx, mask) ==
    IF mask.given /\ Len(SearchRows(idx, mask)) = 0 THEN {}
    ELSE {"gpu_scores", "all_results",
          VDB_Search_vecs(mask), VDB_Search_ids(mask)}

\* What VDB_Search frees (lines 113, 129-133).
VDB_Search_frees(idx, mask) ==
    IF mask.given /\ Len(SearchRows(idx, mask)) = 0 THEN {}
    ELSE {"gpu_scores", "all_results"}
         \cup (IF mask.given
               THEN {VDB_Search_vecs(mask), VDB_Search_ids(mask)} ELSE {})

\* The index VDB_Search leaves: an array of the index that was written or
\* freed no longer holds the rows.
VDB_Search_index(idx, mask) ==
    LET touched == VDB_Search_writes(idx, mask) \cup VDB_Search_frees(idx, mask)
    IN  [idx EXCEPT
            !.vectors = IF "idx->vectors" \in touched THEN <<>> ELSE @,
            !.ids = IF "idx->ids" \in touched THEN <<>> ELSE @]

(***************************************************************************)
(* Metadata store: src/src/metadata.c                                      *)
(***************************************************************************)
\* A char*: NULL, or a string.
Null == [s |-> <<>>, isNull |-> TRUE]
Str(s) == [s |-> s, isNull |-> FALSE]

MetaStore_Init(capacity) == [capacity |-> capacity, count |-> 0, raw |-> <<>>]

\* The store after MetaStore_Add; a NULL or empty yaml_flow is stored as NULL.
MetaStore_Add(m, yaml_flow) ==
    IF m.count >= m.capacity THEN m
    ELSE [m EXCEPT !.count = @ + 1,
                   !.raw = Append(SubSeq(@, 1, m.count),
                                  IF ~yaml_flow.isNull /\ yaml_flow.s # <<>>
                                  THEN yaml_flow ELSE Null)]

\* One record of the metadata file.
MetaRow(r) == IF r.isNull THEN <<0>> ELSE <<Len(r.s)>> \o r.s

\* The file after MetaStore_Save.
MetaStore_Save(m, file, fopenOk) ==
    IF ~fopenOk THEN file
    ELSE File(<<m.count>> \o Flatten([i \in 1..m.count |-> MetaRow(m.raw[i])]))

\* The records MetaStore_Load reads: n records starting at element p of d;
\* it stops at the first one the file does not hold in full.
RECURSIVE ReadMetaRows(_, _, _)
ReadMetaRows(d, p, n) ==
    IF n = 0 \/ p > Len(d) THEN <<>>
    ELSE LET len == d[p]
         IN  IF len > 0
             THEN IF p + len > Len(d) THEN <<>>
                  ELSE <<Str(SubSeq(d, p + 1, p + len))>>
                       \o ReadMetaRows(d, p + 1 + len, n - 1)
             ELSE <<Null>> \o ReadMetaRows(d, p + 1, n - 1)

\* The store after MetaStore_Load, which appends the file's records.
MetaStore_Load(m, file) ==
    IF ~file.exists \/ Len(file.data) < 1 THEN m
    ELSE LET rows == ReadMetaRows(file.data, 2, file.data[1])
         IN  [m EXCEPT !.raw = SubSeq(@, 1, m.count) \o rows,
                       !.count = @ + Len(rows)]

(***************************************************************************)
(* The flow scanner of src/src/metadata.c.  A C string is the sequence of  *)
(* its bytes; position p (from 1) past the end reads the terminating NUL.  *)
(***************************************************************************)
\* The byte of a character.
Ascii ==
    ("a" :> 97) @@ ("b" :> 98) @@ ("c" :> 99) @@ ("d" :> 100) @@
    ("e" :> 101) @@ ("f" :> 102) @@ ("g" :> 103) @@ ("h" :> 104) @@
    ("i" :> 105) @@ ("j" :> 106) @@ ("k" :> 107) @@ ("l" :> 108) @@
    ("m" :> 109) @@ ("n" :> 110) @@ ("o" :> 111) @@ ("p" :> 112) @@
    ("q" :> 113) @@ ("r" :> 114) @@ ("s" :> 115) @@ ("t" :> 116) @@
    ("u" :> 117) @@ ("v" :> 118) @@ ("w" :> 119) @@ ("x" :> 120) @@
    ("y" :> 121) @@ ("z" :> 122) @@ ("0" :> 48) @@ ("1" :> 49) @@
    ("2" :> 50) @@ ("3" :> 51) @@ ("4" :> 52) @@ ("5" :> 53) @@
    ("6" :> 54) @@ ("7" :> 55) @@ ("8" :> 56) @@ ("9" :> 57) @@
    (" " :> 32) @@ ("$" :> 36) @@ ("+" :> 43) @@ ("," :> 44) @@
    ("-" :> 45) @@ (":" :> 58) @@ ("[" :> 91) @@ ("]" :> 93) @@
    ("{" :> 123) @@ ("}" :> 125)

\* The C string of a TLA+ sequence of characters.
B(cs) == [i \in 1..Len(cs) |-> Ascii[cs[i]]]

CH_NUL == 0
CH_TAB == 9
CH_COMMA == 44
CH_COLON == 58
CH_LBRACKET == 91
CH_RBRACKET == 93
CH_LBRACE == 123
CH_RBRACE == 125

\* *p
At(s, p) == IF p >= 1 /\ p <= Len(s) THEN s[p] ELSE CH_NUL

\* skip_ws: the position of the first byte at or after p that is neither a
\* space nor a tab.
RECURSIVE skip_ws(_, _)
skip_ws(s, p) ==
    IF At(s, p) # CH_NUL /\ (At(s, p) = CH_SPACE \/ At(s, p) = CH_TAB)
    THEN skip_ws(s, p + 1)
    ELSE p

\* The bytes that end a token.
TokenStop(c) ==
    c \in {CH_NUL, CH_COMMA, CH_COLON, CH_LBRACE, CH_RBRACE,
           CH_LBRACKET, CH_RBRACKET, CH_SPACE, CH_TAB}

RECURSIVE TokenEnd(_, _)
TokenEnd(s, p) == IF TokenStop(At(s, p)) THEN p ELSE TokenEnd(s, p + 1)

\* read_token: the token after the white space at p, and the position after
\* it.
read_token(s, p) ==
    LET start == skip_ws(s, p)
        end   == TokenEnd(s, start)
    IN  [p |-> end, len |-> end - start, tok |-> SubSeq(s, start, end - 1)]

\* is_int_str: an optional sign followed by digits only.
is_int_str(tok) ==
    IF Len(tok) = 0 THEN FALSE
    ELSE IF tok[1] = CH_PLUS \/ tok[1] = CH_MINUS
         THEN Len(tok) # 1 /\ \A i \in 2..Len(tok) : IsDigit(tok[i])
         ELSE \A i \in 1..Len(tok) : IsDigit(tok[i])

\* The size of parse_int's buffer.
PARSE_INT_BUF == 64

\* parse_int: strtoll of the first 63 bytes of a token is_int_str accepts.
parse_int(tok) ==
    LET n   == IF Len(tok) < PARSE_INT_BUF - 1 THEN Len(tok) ELSE PARSE_INT_BUF - 1
        buf == SubSeq(tok, 1, n)
    IN  IF buf[1] = CH_MINUS THEN 0 - DigitsValue(Tail(buf))
        ELSE IF buf[1] = CH_PLUS THEN DigitsValue(Tail(buf))
        ELSE DigitsValue(buf)

\* snprintf(buf, ..., "%" PRId64, i): the decimal digits of i.
RECURSIVE Digits(_)
Digits(n) ==
    IF n < 10 THEN <<CH_0 + n>>
    ELSE Append(Digits(n \div 10), CH_0 + (n % 10))

snprintf_d(i) == IF i < 0 THEN <<CH_MINUS>> \o Digits(0 - i) ELSE Digits(i)

\* MetaVal: a value of one of three types.
META_VAL_STRING == 0
META_VAL_INT == 1
META_VAL_ARRAY == 2

ValString(str) == [s |-> str, i |-> 0, type |-> META_VAL_STRING, items |-> <<>>]
ValInt(n) == [s |-> <<>>, i |-> n, type |-> META_VAL_INT, items |-> <<>>]
ValArray(items) == [s |-> <<>>, i |-> 0, type |-> META_VAL_ARRAY, items |-> items]

\* The most items parse_array keeps.
MAX_ARRAY_ITEMS == 64

\* The loop of parse_array from position p with the items read so far.  An
\* iteration that moves neither p nor the items leaves the loop in the state
\* it started in, so the loop never ends: hang.
RECURSIVE parse_array_loop(_, _, _)
parse_array_loop(s, p, items) ==
    IF At(s, p) = CH_NUL \/ At(s, p) = CH_RBRACKET
    THEN [p |-> p, items |-> items, hang |-> FALSE]
    ELSE LET p1 == skip_ws(s, p)
         IN  IF At(s, p1) = CH_RBRACKET
             THEN [p |-> p1, items |-> items, hang |-> FALSE]
             ELSE Force(read_token(s, p1), LAMBDA t :
                  LET items2 == IF t.len > 0 /\ Len(items) < MAX_ARRAY_ITEMS
                                THEN Append(items, t.tok) ELSE items
                      p2     == skip_ws(s, t.p)
                      p3     == IF At(s, p2) = CH_COMMA THEN p2 + 1 ELSE p2
                  IN  IF p3 = p /\ t.len = 0
                      THEN [p |-> p, items |-> items, hang |-> TRUE]
                      ELSE Force(<<p3, items2>>, LAMBDA a :
                               parse_array_loop(s, a[1], a[2])))

\* parse_array: the array at p and the position past its closing bracket.
parse_array(s, p) ==
    LET p0 == skip_ws(s, p)
        p1 == IF At(s, p0) = CH_LBRACKET THEN p0 + 1 ELSE p0
        r  == parse_array_loop(s, p1, <<>>)
    IN  [p    |-> IF At(s, r.p) = CH_RBRACKET THEN r.p + 1 ELSE r.p,
         hang |-> r.hang,
         val  |-> ValArray(r.items)]

\* parse_value: an array, an integer or a bare string.
parse_value(s, p) ==
    LET p0 == skip_ws(s, p)
    IN  IF At(s, p0) = CH_LBRACKET THEN parse_array(s, p0)
        ELSE LET t == read_token(s, p0)
             IN  [p |-> t.p,
                  hang |-> FALSE,
                  val |-> IF is_int_str(t.tok) THEN ValInt(parse_int(t.tok))
                          ELSE ValString(t.tok)]

\* The position after the sub-map that starts at the brace at p: past the
\* brace that brings the depth back to 0, or the end of the string.
RECURSIVE SubMapEnd(_, _, _)
SubMapEnd(s, p, depth) ==
    IF At(s, p) = CH_NUL THEN p
    ELSE IF At(s, p) = CH_LBRACE THEN SubMapEnd(s, p + 1, depth + 1)
    ELSE IF At(s, p) = CH_RBRACE
         THEN IF depth - 1 = 0 THEN p + 1 ELSE SubMapEnd(s, p + 1, depth - 1)
    ELSE SubMapEnd(s, p + 1, depth)

\* The most fields MetaStore_Parse keeps.
MAX_FIELDS == 32

\* parse_fields: the fields of the mapping body at p, after the fields read
\* so far.
RECURSIVE parse_fields(_, _, _, _)
parse_fields(s, p, fields, max_fields) ==
    IF At(s, p) = CH_NUL \/ Len(fields) >= max_fields
    THEN [hang |-> FALSE, fields |-> fields]
    ELSE Force(skip_ws(s, p), LAMBDA p0 :
         IF At(s, p0) \in {CH_NUL, CH_RBRACE, CH_RBRACKET}
         THEN [hang |-> FALSE, fields |-> fields]
         ELSE Force(read_token(s, p0), LAMBDA k :
              LET p1 == skip_ws(s, k.p)
                  p2 == IF At(s, p1) = CH_COLON THEN p1 + 1 ELSE p1
              IN  IF k.len = 0 THEN [hang |-> FALSE, fields |-> fields]
                  ELSE Force(skip_ws(s, p2), LAMBDA p3 :
                       IF At(s, p3) = CH_LBRACE
                       THEN Force(SubMapEnd(s, p3, 0), LAMBDA e :
                            LET p4 == skip_ws(s, e)
                                p5 == IF At(s, p4) = CH_COMMA THEN p4 + 1 ELSE p4
                            IN  Force(<<p5, Append(fields,
                                            [val |-> ValString(SubSeq(s, p3, e - 1)),
                                             key |-> k.tok])>>,
                                      LAMBDA a : parse_fields(s, a[1], a[2], max_fields)))
                       ELSE Force(parse_value(s, p3), LAMBDA v :
                            LET p4 == skip_ws(s, v.p)
                                p5 == IF At(s, p4) = CH_COMMA THEN p4 + 1 ELSE p4
                            IN  IF v.hang THEN [hang |-> TRUE, fields |-> fields]
                                ELSE Force(<<p5, Append(fields,
                                                [val |-> v.val, key |-> k.tok])>>,
                                           LAMBDA a :
                                               parse_fields(s, a[1], a[2], max_fields))))))

\* MetaStore_Parse: the record of a flow string, with optional outer braces.
MetaStore_Parse(yaml_flow) ==
    IF yaml_flow.isNull \/ yaml_flow.s = <<>>
    THEN [hang |-> FALSE, fields |-> <<>>]
    ELSE Force(yaml_flow.s, LAMBDA s :
         LET p0 == skip_ws(s, 1)
             p1 == IF At(s, p0) = CH_LBRACE THEN p0 + 1 ELSE p0
         IN  parse_fields(s, p1, <<>>, MAX_FIELDS))

(***************************************************************************)
(* Filter evaluation: src/src/metadata.c                                   *)
(***************************************************************************)
\* The sign of strncmp(a, b, n) on strings that hold at least n bytes.
RECURSIVE strncmp(_, _, _)
strncmp(a, b, n) ==
    IF n = 0 \/ (a = <<>> /\ b = <<>>) THEN 0
    ELSE IF At(a, 1) < At(b, 1) THEN -1
    ELSE IF At(a, 1) > At(b, 1) THEN 1
    ELSE IF a = <<>> \/ b = <<>> THEN 0
    ELSE strncmp(Tail(a), Tail(b), n - 1)

\* A slip that compares integers by their decimal digits.
meta_val_cmp_AsStrings(val, cmp_str) ==
    LET str == IF val.type = META_VAL_INT THEN snprintf_d(val.i) ELSE val.s
        n   == Min(Len(str), Len(cmp_str))
        r   == strncmp(str, cmp_str, n)
    IN  IF val.type = META_VAL_ARRAY THEN -1
        ELSE IF r # 0 THEN r ELSE Len(str) - Len(cmp_str)

\* meta_val_cmp: negative, zero or positive as val is below, equal to or
\* above the operand.
meta_val_cmp(val, cmp_str) ==
    IF val.type = META_VAL_INT /\ is_int_str(cmp_str)
    THEN LET cv == parse_int(cmp_str)
         IN  IF val.i < cv THEN -1 ELSE IF val.i > cv THEN 1 ELSE 0
    ELSE IF val.type = META_VAL_STRING
    THEN LET n == Min(Len(val.s), Len(cmp_str))
             r == strncmp(val.s, cmp_str, n)
         IN  IF r # 0 THEN r ELSE Len(val.s) - Len(cmp_str)
    ELSE -1

\* A slip that compares strings without comparing their lengths.
meta_val_eq_NoLength(val, tok) ==
    IF val.type = META_VAL_INT /\ is_int_str(tok) THEN val.i = parse_int(tok)
    ELSE IF val.type = META_VAL_STRING
    THEN strncmp(val.s, tok, Len(tok)) = 0
    ELSE IF val.type = META_VAL_ARRAY
    THEN \E i \in 1..Len(val.items) : strncmp(val.items[i], tok, Len(tok)) = 0
    ELSE FALSE

\* meta_val_eq: whether val equals the token.
meta_val_eq(val, tok) ==
    IF val.type = META_VAL_INT /\ is_int_str(tok) THEN val.i = parse_int(tok)
    ELSE IF val.type = META_VAL_STRING
    THEN Len(val.s) = Len(tok) /\ strncmp(val.s, tok, Len(tok)) = 0
    ELSE IF val.type = META_VAL_ARRAY
    THEN \E i \in 1..Len(val.items) :
            Len(val.items[i]) = Len(tok) /\ strncmp(val.items[i], tok, Len(tok)) = 0
    ELSE FALSE

\* meta_val_prefix: whether val is a string that starts with pfx.
meta_val_prefix(val, pfx) ==
    /\ val.type = META_VAL_STRING
    /\ Len(val.s) >= Len(pfx)
    /\ strncmp(val.s, pfx, Len(pfx)) = 0

\* meta_val_contains: whether val is an array with the item elem.
meta_val_contains(val, elem) ==
    /\ val.type = META_VAL_ARRAY
    /\ \E i \in 1..Len(val.items) :
          Len(val.items[i]) = Len(elem) /\ strncmp(val.items[i], elem, Len(elem)) = 0

\* A slip that returns the first field when no field has the key.
find_field_First(rec, key) ==
    IF \E i \in 1..Len(rec) : rec[i].key = key
    THEN CHOOSE i \in 1..Len(rec) :
            rec[i].key = key /\ \A j \in 1..(i - 1) : rec[j].key # key
    ELSE IF Len(rec) > 0 THEN 1 ELSE 0

\* find_field: the position of the first field with the key, or 0 (NULL).
find_field(rec, key) ==
    IF \E i \in 1..Len(rec) : rec[i].key = key
    THEN CHOOSE i \in 1..Len(rec) :
            rec[i].key = key /\ \A j \in 1..(i - 1) : rec[j].key # key
    ELSE 0

\* The operator names eval_condition looks for.
OP_GTE == B(<<"$", "g", "t", "e">>)
OP_LTE == B(<<"$", "l", "t", "e">>)
OP_NE == B(<<"$", "n", "e">>)
OP_PREFIX == B(<<"$", "p", "r", "e", "f", "i", "x">>)
OP_CONTAINS == B(<<"$", "c", "o", "n", "t", "a", "i", "n", "s">>)
KEY_AND == B(<<"$", "a", "n", "d">>)
KEY_OR == B(<<"$", "o", "r">>)

\* op_len >= n && strncmp(op_start, name, n) == 0
OpIs(op_start, name) ==
    Len(op_start) >= Len(name) /\ SubSeq(op_start, 1, Len(name)) = name

\* What an evaluation comes to: 0, 1, or it never returns.
HANG == 2

\* eval_condition: one condition of the filter on a data record.
eval_condition(data_rec, fkey, fval) ==
    Force(find_field(data_rec, fkey), LAMBDA d :
    IF d = 0 THEN 0
    ELSE LET dval == data_rec[d].val
         IN  IF fval.type = META_VAL_STRING /\ Len(fval.s) > 0
                /\ fval.s[1] = CH_LBRACE
             THEN Force(read_token(fval.s, skip_ws(fval.s, 2)), LAMBDA opr :
                  LET p1 == skip_ws(fval.s, opr.p)
                      p2 == IF At(fval.s, p1) = CH_COLON THEN p1 + 1 ELSE p1
                  IN  Force(parse_value(fval.s, skip_ws(fval.s, p2)), LAMBDA operand :
                      LET cmp_str == IF operand.val.type = META_VAL_STRING
                                     THEN operand.val.s
                                     ELSE IF operand.val.type = META_VAL_INT
                                     THEN snprintf_d(operand.val.i)
                                     ELSE <<>>
                          pass == IF OpIs(opr.tok, OP_GTE)
                                  THEN meta_val_cmp(dval, cmp_str) >= 0
                                  ELSE IF OpIs(opr.tok, OP_LTE)
                                  THEN meta_val_cmp(dval, cmp_str) <= 0
                                  ELSE IF OpIs(opr.tok, OP_NE)
                                  THEN ~meta_val_eq(dval, cmp_str)
                                  ELSE IF OpIs(opr.tok, OP_PREFIX)
                                  THEN meta_val_prefix(dval, cmp_str)
                                  ELSE IF OpIs(opr.tok, OP_CONTAINS)
                                  THEN meta_val_contains(dval, cmp_str)
                                  ELSE FALSE
                      IN  IF operand.hang THEN HANG
                          ELSE IF pass THEN 1 ELSE 0))
             ELSE IF fval.type = META_VAL_INT
             THEN IF meta_val_eq(dval, snprintf_d(fval.i)) THEN 1 ELSE 0
             ELSE IF fval.type = META_VAL_STRING
             THEN IF meta_val_eq(dval, fval.s) THEN 1 ELSE 0
             ELSE 0)

\* The position after the sub-mapping whose opening brace is before p, at
\* depth 1: past its closing brace, or the end of the string.
RECURSIVE SubMappingEnd(_, _, _)
SubMappingEnd(s, p, depth) ==
    IF At(s, p) = CH_NUL \/ depth <= 0 THEN p
    ELSE IF At(s, p) = CH_LBRACE THEN SubMappingEnd(s, p + 1, depth + 1)
    ELSE IF At(s, p) = CH_RBRACE THEN SubMappingEnd(s, p + 1, depth - 1)
    ELSE SubMappingEnd(s, p + 1, depth)

RECURSIVE eval_logical_loop(_, _, _, _)
RECURSIVE eval_filter_from(_, _, _)

\* The loop of eval_logical_array from position p of the array body.  An
\* iteration that does not move p repeats for ever.
eval_logical_loop(data_rec, s, p, is_or) ==
    IF At(s, p) = CH_NUL THEN (IF is_or THEN 0 ELSE 1)
    ELSE Force(skip_ws(s, p), LAMBDA p0 :
         IF At(s, p0) = CH_RBRACKET \/ At(s, p0) = CH_NUL
         THEN (IF is_or THEN 0 ELSE 1)
         ELSE IF At(s, p0) = CH_LBRACE
         THEN Force(SubMappingEnd(s, p0 + 1, 1), LAMBDA e :
              Force(MetaStore_Parse(Str(SubSeq(s, p0 + 1, e - 2))), LAMBDA sub :
              Force(IF sub.hang THEN HANG
                    ELSE eval_filter_from(data_rec, sub.fields, 1), LAMBDA result :
              LET p1 == skip_ws(s, e)
                  p2 == IF At(s, p1) = CH_COMMA THEN p1 + 1 ELSE p1
              IN  IF result = HANG THEN HANG
                  ELSE IF is_or /\ result = 1 THEN 1
                  ELSE IF ~is_or /\ result = 0 THEN 0
                  ELSE Force(p2, LAMBDA q : eval_logical_loop(data_rec, s, q, is_or)))))
         ELSE LET p2 == IF At(s, p0) = CH_COMMA THEN p0 + 1 ELSE p0
              IN  IF p2 = p THEN HANG
                  ELSE eval_logical_loop(data_rec, s, p2, is_or))

\* eval_logical_array: the $and or $or of the sub-mappings of an array body.
eval_logical_array(data_rec, array_body, is_or) ==
    LET p0 == skip_ws(array_body, 1)
        p1 == IF At(array_body, p0) = CH_LBRACKET THEN p0 + 1 ELSE p0
    IN  eval_logical_loop(data_rec, array_body, p1, is_or)

\* The loop of eval_filter_record from field i of the filter.
eval_filter_from(data_rec, filter_rec, i) ==
    IF i > Len(filter_rec) THEN 1
    ELSE LET key  == filter_rec[i].key
             fval == filter_rec[i].val
         IN  Force(IF key = KEY_AND
                   THEN IF fval.type = META_VAL_STRING
                        THEN eval_logical_array(data_rec, fval.s, FALSE)
                        ELSE 1
                   ELSE IF key = KEY_OR
                   THEN IF fval.type = META_VAL_STRING
                        THEN eval_logical_array(data_rec, fval.s, TRUE)
                        ELSE 1
                   ELSE eval_condition(data_rec, key, fval), LAMBDA r :
             IF r = 1 THEN eval_filter_from(data_rec, filter_rec, i + 1)
             ELSE r)

\* eval_filter_record: every condition of the filter on a data record.
eval_filter_record(data_rec, filter_rec) == eval_filter_from(data_rec, filter_rec, 1)

\* The loop of MetaStore_Filter from record i, with the mask written so far.
RECURSIVE MetaStore_Filter_loop(_, _, _, _, _)
MetaStore_Filter_loop(m, filter, n, i, mask) ==
    IF i > n THEN [mask |-> mask, returned |-> TRUE]
    ELSE IF m.raw[i].isNull
    THEN MetaStore_Filter_loop(m, filter, n, i + 1, [mask EXCEPT ![i] = 0])
    ELSE Force(MetaStore_Parse(m.raw[i]), LAMBDA data :
         Force(IF data.hang THEN HANG
               ELSE eval_filter_record(data.fields, filter), LAMBDA r :
         IF r = HANG THEN [mask |-> mask, returned |-> FALSE]
         ELSE MetaStore_Filter_loop(m, filter, n, i + 1, [mask EXCEPT ![i] = r])))

\* MetaStore_Filter: the mask it writes, and whether it returns.
MetaStore_Filter(m, filter_expr, mask_len) ==
    LET n      == Min(mask_len, m.count)
        zeros  == [i \in 1..mask_len |-> 0]
    IN  Force(MetaStore_Parse(filter_expr), LAMBDA filter :
        IF filter.hang THEN [mask |-> zeros, returned |-> FALSE]
        ELSE MetaStore_Filter_loop(m, filter.fields, n, 1, zeros))

(***************************************************************************)
(* Arena: src/src/memory.c.  An address and a size_t are numbers of         *)
(* SIZE_BITS bits; arithmetic on them wraps.  live lists the allocations    *)
(* made and not given back by a restoration, in the order of their pushes.  *)
(***************************************************************************)
SIZE_BITS == 14
ALIGNMENT == 8

\* A size_t: the low SIZE_BITS bits.
size_t(n) == n % (2 ^ SIZE_BITS)

\* Arena__Init: mmap gives a page of the size asked for, at a page boundary.
Arena__Init(base, size) ==
    [base |-> base, size |-> size, used |-> 0, live |-> <<>>, saved_used |-> -1]

\* The padding Arena__Push puts before the region.
PushPadding(a) ==
    LET current_addr == size_t(a.base + a.used)
    IN  (ALIGNMENT - (current_addr % ALIGNMENT)) % ALIGNMENT

\* Whether Arena__Push(a, size) traps.
PushTraps(a, size) == size_t(a.used + PushPadding(a) + size) > a.size

\* The pointer Arena__Push(a, size) returns, and the arena it leaves.
Arena__Push_ptr(a) == size_t(a.base + a.used + PushPadding(a))

Arena__Push(a, size) ==
    [a EXCEPT !.used = size_t(a.used + PushPadding(a) + size),
              !.live = Append(a.live, [len |-> size,
                                       used |-> a.used,
                                       ptr |-> Arena__Push_ptr(a)])]

\* A slip that leaves used where the scratch allocations ended.
ArenaRestore_Keep(a) == [a EXCEPT !.saved_used = -1]

\* size_t saved_used = arena->used, and arena->used = saved_used: the
\* allocations pushed since the mark are given back.
ArenaMark(a) == [a EXCEPT !.saved_used = a.used]
ArenaRestore(a) ==
    [a EXCEPT !.used = a.saved_used, !.saved_used = -1,
              !.live = SelectSeq(a.live, LAMBDA r : r.used < a.saved_used)]

\* Arena__Reset
Arena__Reset(a) == [a EXCEPT !.used = 0, !.live = <<>>, !.saved_used = -1]

\* A sequence of pushes: the arena after them, or the trap of the first
\* that does not fit.
RECURSIVE PushAll(_, _)
PushAll(a, sizes) ==
    IF sizes = <<>> THEN [arena |-> a, trap |-> FALSE]
    ELSE IF PushTraps(a, Head(sizes)) THEN [arena |-> a, trap |-> TRUE]
    ELSE PushAll(Arena__Push(a, Head(sizes)), Tail(sizes))

(***************************************************************************)
(* The allocations of the metadata store and of its filter:                *)
(* src/src/metadata.c.  Each operator gives the lengths pushed, in order.   *)
(***************************************************************************)
SIZEOF_PTR == 8
SIZEOF_MetaField == 32

\* arena_strdup(a, s, len)
arena_strdup(str) == <<Len(str) + 1>>

\* MetaStore_Init: the raw array.
MetaStore_Init_pushes(capacity) == <<capacity * SIZEOF_PTR>>

\* MetaStore_Add: the copy of the flow string.
MetaStore_Add_pushes(m, yaml_flow) ==
    IF m.count < m.capacity /\ ~yaml_flow.isNull /\ yaml_flow.s # <<>>
    THEN arena_strdup(yaml_flow.s) ELSE <<>>

\* parse_value / parse_array: the copy of a string, or of each item and
\* then the items array.
parse_value_pushes(val) ==
    IF val.type = META_VAL_STRING THEN arena_strdup(val.s)
    ELSE IF val.type = META_VAL_ARRAY
    THEN Flatten([j \in 1..Len(val.items) |-> arena_strdup(val.items[j])])
         \o <<Len(val.items) * SIZEOF_PTR>>
    ELSE <<>>

\* MetaStore_Parse of a string that gave these fields: the fields array,
\* then each key and value.
MetaStore_Parse_pushes(yaml_flow, fields) ==
    IF yaml_flow.isNull \/ yaml_flow.s = <<>> THEN <<>>
    ELSE <<MAX_FIELDS * SIZEOF_MetaField>>
         \o Flatten([j \in 1..Len(fields) |->
                        arena_strdup(fields[j].key) \o parse_value_pushes(fields[j].val)])

\* eval_condition: the operand of an operator, and the digits of an
\* integer operand.
eval_condition_pushes(data_rec, fkey, fval) ==
    IF find_field(data_rec, fkey) = 0 THEN <<>>
    ELSE IF fval.type = META_VAL_STRING /\ Len(fval.s) > 0 /\ fval.s[1] = CH_LBRACE
    THEN LET opr     == read_token(fval.s, skip_ws(fval.s, 2))
             p1      == skip_ws(fval.s, opr.p)
             p2      == IF At(fval.s, p1) = CH_COLON THEN p1 + 1 ELSE p1
             operand == parse_value(fval.s, skip_ws(fval.s, p2))
         IN  parse_value_pushes(operand.val)
             \o (IF operand.val.type = META_VAL_INT
                 THEN arena_strdup(snprintf_d(operand.val.i)) ELSE <<>>)
    ELSE <<>>

RECURSIVE eval_logical_pushes(_, _, _, _)
RECURSIVE eval_filter_pushes(_, _, _)

\* eval_logical_array from position p: the copy of each sub-mapping, its
\* parse and its evaluation, up to the sub-mapping that decides.
eval_logical_pushes(data_rec, s, p, is_or) ==
    LET p0 == skip_ws(s, p)
    IN  IF At(s, p) = CH_NUL \/ At(s, p0) = CH_RBRACKET \/ At(s, p0) = CH_NUL THEN <<>>
        ELSE IF At(s, p0) = CH_LBRACE
        THEN LET e      == SubMappingEnd(s, p0 + 1, 1)
                 inner  == SubSeq(s, p0 + 1, e - 2)
                 sub    == MetaStore_Parse(Str(inner))
                 result == eval_filter_from(data_rec, sub.fields, 1)
                 p1     == skip_ws(s, e)
                 p2     == IF At(s, p1) = CH_COMMA THEN p1 + 1 ELSE p1
             IN  arena_strdup(inner) \o MetaStore_Parse_pushes(Str(inner), sub.fields)
                 \o eval_filter_pushes(data_rec, sub.fields, 1)
                 \o (IF (is_or /\ result = 1) \/ (~is_or /\ result = 0) THEN <<>>
                     ELSE eval_logical_pushes(data_rec, s, p2, is_or))
        ELSE eval_logical_pushes(data_rec, s,
                                 IF At(s, p0) = CH_COMMA THEN p0 + 1 ELSE p0, is_or)

\* eval_filter_record from field i of the filter, up to the condition that
\* fails.
eval_filter_pushes(data_rec, filter_rec, i) ==
    IF i > Len(filter_rec) THEN <<>>
    ELSE LET key     == filter_rec[i].key
             fval    == filter_rec[i].val
             logical == key = KEY_AND \/ key = KEY_OR
             r       == IF logical
                        THEN IF fval.type = META_VAL_STRING
                             THEN eval_logical_array(data_rec, fval.s, key = KEY_OR)
                             ELSE 1
                        ELSE eval_condition(data_rec, key, fval)
         IN  (IF logical
              THEN IF fval.type = META_VAL_STRING
                   THEN eval_logical_pushes(data_rec, fval.s,
                            IF At(fval.s, skip_ws(fval.s, 1)) = CH_LBRACKET
                            THEN skip_ws(fval.s, 1) + 1 ELSE skip_ws(fval.s, 1),
                            key = KEY_OR)
                   ELSE <<>>
              ELSE eval_condition_pushes(data_rec, key, fval))
             \o (IF r = 1 THEN eval_filter_pushes(data_rec, filter_rec, i + 1) ELSE <<>>)

\* MetaStore_Filter, when it returns: the filter's parse, then each record's
\* parse and evaluation.
MetaStore_Filter_pushes(m, filter_expr, mask_len) ==
    LET filter == MetaStore_Parse(filter_expr).fields
    IN  MetaStore_Parse_pushes(filter_expr, filter)
        \o Flatten([i \in 1..Min(mask_len, m.count) |->
               IF m.raw[i].isNull THEN <<>>
               ELSE LET data == MetaStore_Parse(m.raw[i]).fields
                    IN  MetaStore_Parse_pushes(m.raw[i], data)
                        \o eval_filter_pushes(data, filter, 1)])

(***************************************************************************)
(* Tokenizer: src/src/tokenizer.c.  Token ids count from 0: token id is     *)
(* element id + 1 of vocab and of vocab_scores.  An f32 score is a small    *)
(* integer.                                                                 *)
(***************************************************************************)
\* The sign of strcmp(a, b).
strcmp(a, b) == strncmp(a, b, Len(a) + Len(b) + 1)

\* compare_token_index: sorted_vocab's order, by the bytes of the strings.
compare_token_index(a, b) == strcmp(a.str, b.str)

\* What qsort(sorted_vocab, ..., compare_token_index) may leave: any order
\* the comparison accepts; the order of equal strings is unspecified.
SortedVocabs(vocab) ==
    { [i \in 1..Len(vocab) |-> [id |-> f[i] - 1, str |-> vocab[f[i]]]] : f \in
        { g \in Orders(Len(vocab)) :
            \A i, j \in 1..Len(vocab) :
                i < j => strcmp(vocab[g[i]], vocab[g[j]]) <= 0 } }

\* Tokenizer__Init on a tokenizer file of vocab_size records of a score and
\* a string, given the array qsort left.
Tokenizer__Init(file, sorted) ==
    [vocab            |-> [i \in 1..Len(file.records) |-> file.records[i].str],
     vocab_scores     |-> [i \in 1..Len(file.records) |-> file.records[i].score],
     sorted_vocab     |-> sorted,
     vocab_size       |-> Len(file.records),
     max_token_length |-> file.max_token_length]

\* bsearch over sorted_vocab[l..u-1] (from 0): the element at the middle,
\* or the half on its side.
RECURSIVE bsearch(_, _, _, _)
bsearch(key, base, l, u) ==
    IF l >= u THEN -1
    ELSE LET idx == (l + u) \div 2
             c   == compare_token_index(key, base[idx + 1])
         IN  IF c < 0 THEN bsearch(key, base, l, idx)
             ELSE IF c > 0 THEN bsearch(key, base, idx + 1, u)
             ELSE base[idx + 1].id

Tokenizer__FindToken(t, str) ==
    bsearch([id |-> 0, str |-> str], t.sorted_vocab, 0, t.vocab_size)

\* char buf[512] of the merge loop, scaled down; and float best_score =
\* -1e10, scaled to the scores of the model.
ENCODE_BUF == 4
BEST_SCORE_0 == -3

\* snprintf(buf, size, "%s%s", a, b): the first size - 1 bytes.
snprintf_ss(size, a, b) == SubSeq(a \o b, 1, Min(Len(a \o b), size - 1))

\* Step 1 of Tokenizer__Encode: the token of each byte that has one.
RECURSIVE EncodeBytes(_, _)
EncodeBytes(t, text) ==
    IF text = <<>> THEN <<>>
    ELSE LET id == Tokenizer__FindToken(t, <<Head(text)>>)
         IN  (IF id # -1 THEN <<id>> ELSE <<>>) \o EncodeBytes(t, Tail(text))

\* The scan of one round of the merge loop, from pair i on.
RECURSIVE ScanPairs(_, _, _, _)
ScanPairs(t, tokens, i, best) ==
    IF i >= Len(tokens) - 1 THEN best
    ELSE LET buf == snprintf_ss(ENCODE_BUF, t.vocab[tokens[i + 1] + 1],
                                t.vocab[tokens[i + 2] + 1])
             id  == Tokenizer__FindToken(t, buf)
         IN  IF id # -1 /\ t.vocab_scores[id + 1] > best.best_score
             THEN ScanPairs(t, tokens, i + 1,
                            [best_score |-> t.vocab_scores[id + 1],
                             best_id |-> id, best_idx |-> i])
             ELSE ScanPairs(t, tokens, i + 1, best)

\* tokens after the merge at best_idx: the pair replaced, the rest shifted.
MergeAt(tokens, best_idx, best_id) ==
    SubSeq(tokens, 1, best_idx) \o <<best_id>>
        \o SubSeq(tokens, best_idx + 3, Len(tokens))

\* Step 2: the merge loop.  steps records each round that merged: the
\* tokens before it, and the pair and the id it chose.
RECURSIVE MergeLoop(_, _, _)
MergeLoop(t, tokens, steps) ==
    LET best == ScanPairs(t, tokens, 0,
                          [best_score |-> BEST_SCORE_0, best_id |-> -1, best_idx |-> -1])
    IN  IF best.best_idx = -1
        THEN [tokens |-> tokens, steps |-> steps, n_tokens |-> Len(tokens)]
        ELSE MergeLoop(t, MergeAt(tokens, best.best_idx, best.best_id),
                       Append(steps, [best_id |-> best.best_id,
                                      best_idx |-> best.best_idx,
                                      before |-> tokens]))

Tokenizer__Encode(t, text) == MergeLoop(t, EncodeBytes(t, text), <<>>)

Tokenizer__Decode(t, token, prev_token) ==
    IF token < 0 \/ token >= t.vocab_size THEN <<>> ELSE t.vocab[token + 1]

(***************************************************************************)
(* Command line: src/src/main.c                                            *)
(***************************************************************************)
\* is_integer: an optional sign, then one or more digits.
is_integer(s) ==
    LET body == IF s # <<>> /\ (s[1] = CH_PLUS \/ s[1] = CH_MINUS) THEN Tail(s) ELSE s
    IN  /\ s # <<>>
        /\ body # <<>>
        /\ \A i \in 1..Len(body) : IsDigit(body[i])

\* The widths of int and long, scaled down from 32 and 64 bits (a build
\* whose long is as wide as its int has LONG_BITS = INT_BITS).
INT_BITS == 8
LONG_BITS == 16
LongWidths == {INT_BITS, LONG_BITS}

\* strtol(s, NULL, 10) of a string is_integer accepts, on a build whose long
\* has long_bits bits: the value, or LONG_MAX / LONG_MIN when it is out of
\* range.
strtol_long(s, long_bits) ==
    LET LONG_MAX == 2 ^ (long_bits - 1) - 1
        LONG_MIN == 0 - 2 ^ (long_bits - 1)
        value    == IF s[1] = CH_MINUS THEN 0 - DigitsValue(Tail(s))
                    ELSE IF s[1] = CH_PLUS THEN DigitsValue(Tail(s))
                    ELSE DigitsValue(s)
    IN  IF value > LONG_MAX THEN LONG_MAX
        ELSE IF value < LONG_MIN THEN LONG_MIN
        ELSE value

\* (int)v of a long v: the low INT_BITS bits, as a signed number.
int_cast(v) ==
    ((v + 2 ^ (INT_BITS - 1)) % 2 ^ INT_BITS) - 2 ^ (INT_BITS - 1)

\* (int)strtol(s, NULL, 10) of a string is_integer accepts.
strtol(s) == int_cast(strtol_long(s, LONG_BITS))

\* join_args(start, argc, argv): argv[start..argc-1] joined by single spaces.
\* positional holds C's positional[0..positional_count-1] as elements 1..count.
RECURSIVE join_args(_, _)
join_args(start, positional) ==
    IF start >= Len(positional) THEN <<>>
    ELSE positional[start + 1]
         \o (IF start + 1 < Len(positional) THEN <<CH_SPACE>> ELSE <<>>)
         \o join_args(start + 1, positional)

\* load_state, after TextStore_Init(&ts, 10000, &arena): the stores a process
\* starts with.
load_state(fIdx, fTxt) ==
    LET fresh == VDB_Index_Create(DIM, VDB_METRIC_COSINE, INDEX_CAPACITY)
        t     == TextStore_Init(TEXT_CAPACITY)
    IN  IF fIdx.exists /\ VDB_Index_Load_ok(fIdx)
        THEN [index |-> VDB_Index_Load(fIdx),
              ts    |-> IF fTxt.exists
                        THEN TextStore_Load([t EXCEPT !.count = 0], fTxt)
                        ELSE [t EXCEPT !.count = 0]]
        ELSE [index |-> fresh, ts |-> t]

\* The outcomes of the file system calls of one save_state: whether the db
\* directory can be made, and whether each fopen(..., "wb") succeeds.
IoAllOk == [idx |-> TRUE, dir |-> TRUE, txt |-> TRUE]
IoOutcomes == [idx : BOOLEAN, dir : BOOLEAN, txt : BOOLEAN]

\* save_state: its return value and the two files after it.
save_state(idx, t, fIdx, fTxt, io) ==
    IF ~io.dir
    THEN [idxFile |-> fIdx,
          txtFile |-> fTxt,
          err |-> <<"Error: failed to create directory">>,
          ret |-> 0]
    ELSE [idxFile |-> VDB_Index_Save(idx, fIdx, io.idx),
          txtFile |-> TextStore_Save(t, fTxt, io.txt),
          err |-> IF io.idx THEN <<>> ELSE <<"fopen save">>,
          ret |-> 1]

\* A slip that forgets the row stride: vectors[override_id + j].
OverwriteRow_NoStride(idx, override_id, vec) ==
    [idx EXCEPT !.vectors =
        [p \in 1..Len(@) |->
            IF p - 1 >= override_id /\ p - 1 < override_id + DIM
            THEN vec[p - override_id]
            ELSE @[p]]]

\* The in-place overwrite of row override_id of index->vectors (main.c:489-491).
OverwriteRow(idx, override_id, vec) ==
    [idx EXCEPT !.vectors =
        [p \in 1..Len(@) |->
            IF p - 1 >= override_id * DIM /\ p - 1 < override_id * DIM + DIM
            THEN vec[p - override_id * DIM]
            ELSE @[p]]]

\* How a process ends: its stores, the files, its exit code and its output.
Outcome(idx, t, fIdx, fTxt, code, o, e) ==
    [idxFile |-> fIdx,
     txtFile |-> fTxt,
     index |-> idx,
     ts |-> t,
     exitCode |-> code,
     out |-> o,
     err |-> e]

\* The end of the save branch (main.c:504-510): save_state, then the
\* Memorized line; e is what the branch wrote on stderr before.
SaveAndReport(idx2, t2, fIdx, fTxt, io, note, id, e) ==
    LET sv == save_state(idx2, t2, fIdx, fTxt, io)
    IN  IF sv.ret = 0
        THEN Outcome(idx2, t2, sv.idxFile, sv.txtFile, 1, <<>>, e \o sv.err)
        ELSE Outcome(idx2, t2, sv.idxFile, sv.txtFile, 0,
                     <<"Memorized", note, id>>, e \o sv.err)

\* The save branch of main (main.c:455-510).  positional is C's positional[],
\* vec is what embed_text_llm returns for the note.
main_save(idx, t, fIdx, fTxt, positional, vec, io) ==
    LET positional_count == Len(positional)
        has_id      == positional_count >= 3 /\ is_integer(positional[2])
        override_id == IF has_id THEN strtol(positional[2]) ELSE -1
        note_start  == IF has_id THEN 2 ELSE 1
        note        == join_args(note_start, positional)
    IN  IF positional_count < 2
        THEN Outcome(idx, t, fIdx, fTxt, 1, <<>>, <<"Error: save requires <note> or [<id>] <note>">>)
        ELSE IF note = <<>>
        THEN Outcome(idx, t, fIdx, fTxt, 1, <<>>, <<"Error: save requires non-empty note text">>)
        ELSE IF override_id >= 0
        THEN IF override_id >= t.count \/ override_id >= idx.count
             THEN Outcome(idx, t, fIdx, fTxt, 1, <<>>, <<"Error: override id does not exist">>)
             ELSE SaveAndReport(OverwriteRow(idx, override_id, vec),
                                TextStore_Set(t, override_id, note),
                                fIdx, fTxt, io, note, override_id, <<>>)
        ELSE LET id == TextStore_Add_ret(t, note)
                 t2 == TextStore_Add(t, note)
             IN  IF id = -1
                 THEN Outcome(idx, t2, fIdx, fTxt, 1, <<>>, <<"Error: text store is full">>)
                 ELSE SaveAndReport(VDB_Index_Add(idx, id, vec), t2,
                                    fIdx, fTxt, io, note, id,
                                    VDB_Index_Add_stderr(idx))

\* clear_state: both files are unlinked.
clear_state(fIdx, fTxt) ==
    [idxFile |-> NoFile, txtFile |-> NoFile,
     out |-> IF fIdx.exists \/ fTxt.exists
             THEN <<"Cleared memory database">> ELSE <<"Database already empty">>]

\* The recall branch of main (main.c:511-555): the default k, the clamp and
\* the result buffer.
K_DEFAULT == 2
K_MIN == 1
K_MAX == 100
RESULT_SLOTS == 100
W_k == <<CH_MINUS, 107>>

\* The lines recall prints for the slots VDB_Search filled (main.c:547-553);
\* of the scores of this model only the pad score is below -0.9.
RECURSIVE recall_lines(_, _, _, _)
recall_lines(res, t, k, i) ==
    IF i >= k THEN <<>>
    ELSE (IF res[i + 1].score > PAD_SCORE /\ res[i + 1].id < t.count
          THEN <<<<i + 1, res[i + 1].score, t.lines[res[i + 1].id + 1]>>>>
          ELSE <<>>)
         \o recall_lines(res, t, k, i + 1)

\* Up to the call of VDB_Search: whether the branch gets there, and with
\* which k and query.  positional is C's positional[].
recall_k(positional, long_bits) ==
    LET positional_count == Len(positional)
        has_k       == positional_count >= 4 /\ positional[2] = W_k
        k0          == IF has_k /\ is_integer(positional[3])
                       THEN int_cast(strtol_long(positional[3], long_bits))
                       ELSE K_DEFAULT
        query_start == IF has_k THEN 3 ELSE 1
        k1          == IF k0 < K_MIN THEN K_MIN ELSE k0
        k           == IF k1 > K_MAX THEN K_MAX ELSE k1
        query       == join_args(query_start, positional)
    IN  IF has_k /\ ~is_integer(positional[3])
        THEN [err |-> "Error: -k requires an integer", k |-> k0, query |-> <<>>, ok |-> FALSE]
        ELSE IF query_start >= positional_count
        THEN [err |-> "Error: recall requires <query>", k |-> k0, query |-> <<>>, ok |-> FALSE]
        ELSE IF query = <<>>
        THEN [err |-> "Error: recall requires non-empty query", k |-> k, query |-> <<>>, ok |-> FALSE]
        ELSE [err |-> "", k |-> k, query |-> query, ok |-> TRUE]

(***************************************************************************)
(* The inputs of the command line model.                                   *)
(***************************************************************************)
W_save == <<115, 97, 118, 101>>
W_a == <<97>>
W_b == <<98>>
W_0 == <<CH_0>>
W_1 == <<CH_0 + 1>>
W_p1 == <<CH_PLUS, CH_0 + 1>>
W_m1 == <<CH_MINUS, CH_0 + 1>>
W_9 == <<CH_9>>
W_empty == <<>>

\* The positional arguments after "save".
SaveArgs ==
    { <<>>, <<W_empty>>, <<W_a>>, <<W_a, W_b>>,
      <<W_0, W_a>>, <<W_0, W_a, W_b>>, <<W_p1, W_a, W_b>>, <<W_1, W_a>>,
      <<W_m1, W_a>>, <<W_9, W_a>> }

\* The save commands tried on the failing file system.
SaveArgsIO == { <<W_a>>, <<W_0, W_a, W_b>> }

\* The vectors embed_text_llm can return: unit norm, or zero.
EmbedOutputs ==
    { v \in [1..DIM -> {0, 1}] : Cardinality({j \in 1..DIM : v[j] = 1}) <= 1 }

\* Those of unit norm.
UnitVectors == { v \in EmbedOutputs : \E j \in 1..DIM : v[j] = 1 }

W_recall == <<114, 101, 99, 97, 108, 108>>
W_x == <<120>>

\* The numbers given after -k: around the clamp, around the range of an int
\* and beyond the range of a long.
KNumbers == {-99999, -129, -128, -1, 0, 1, 2, 3, 100, 101, 127, 128, 257, 99999}

\* The positional arguments after "recall": a query alone, -k N and a query,
\* -k with a word that is no integer, -k N without a query, and nothing.
RecallArgs ==
    { <<W_a>>, <<W_a, W_b>>, <<W_k, W_x, W_a>>, <<W_k, W_p1, W_a>>, <<>>, <<W_empty>> }
    \cup { <<W_k, snprintf_d(n), W_a>> : n \in KNumbers }
    \cup { <<W_k, snprintf_d(n)>> : n \in {3} }

\* The save command that precedes the recalls.
RecallSaveArgs == { <<W_a>> }

(***************************************************************************)
(* The command line tool: one action per command, each a whole process.    *)
(***************************************************************************)
NoIndex == VDB_Index_Create(DIM, VDB_METRIC_COSINE, 0)
NoArena == [base |-> 0, size |-> 0, used |-> 0]
NoRunState == <<>>
NoGpu == <<>>
NoTokenizer == [vocab |-> <<>>, vocab_scores |-> <<>>, sorted_vocab |-> <<>>,
                vocab_size |-> 0, max_token_length |-> 0]
NoText == TextStore_Init(0)
NoMeta == [capacity |-> 0, count |-> 0, raw |-> <<>>]

Init ==
    /\ arena = NoArena /\ run_state = NoRunState /\ gpu = NoGpu
    /\ tokenizer = NoTokenizer
    /\ idxFile = NoFile /\ txtFile = NoFile /\ metaFile = NoFile
    /\ index = NoIndex /\ ts = NoText /\ ms = NoMeta
    /\ index0 = NoIndex /\ ts0 = NoText /\ ms0 = NoMeta
    /\ prevFiles = <<NoFile, NoFile, NoFile>>
    /\ op = "init" /\ args = <<>> /\ exitCode = -1
    /\ out = <<>> /\ err = <<>> /\ results = <<>>

\* memo save [<id>] <note>
CmdSave(a, vec, io) ==
    \E st \in {load_state(idxFile, txtFile)} :
    \E r \in {main_save(st.index, st.ts, idxFile, txtFile, <<W_save>> \o a, vec, io)} :
        /\ index0' = st.index /\ ts0' = st.ts
        /\ prevFiles' = <<idxFile, txtFile, metaFile>>
        /\ index' = r.index /\ ts' = r.ts
        /\ idxFile' = r.idxFile /\ txtFile' = r.txtFile
        /\ op' = "save" /\ args' = [io |-> io, vec |-> vec, argv |-> a]
        /\ exitCode' = r.exitCode /\ out' = r.out /\ err' = r.err
        /\ UNCHANGED <<arena, run_state, gpu, tokenizer, metaFile, ms, ms0, results>>

\* memo clear
CmdClear ==
    LET r == clear_state(idxFile, txtFile)
    IN  /\ prevFiles' = <<idxFile, txtFile, metaFile>>
        /\ idxFile' = r.idxFile /\ txtFile' = r.txtFile
        /\ op' = "clear" /\ args' = <<>>
        /\ exitCode' = 0 /\ out' = r.out /\ err' = <<>>
        /\ index' = NoIndex /\ ts' = NoText /\ index0' = NoIndex /\ ts0' = NoText
        /\ UNCHANGED <<arena, run_state, gpu, tokenizer, metaFile, ms, ms0, results>>

\* memo recall [-k N] <query>, on a build whose long has long_bits bits.
\* results holds whether VDB_Search was called, the k it was given and the
\* slots it filled.
CmdRecall(a, vec, long_bits) ==
    /\ op # "recall"
    /\ \E st \in {load_state(idxFile, txtFile)} :
       \E r \in {recall_k(<<W_recall>> \o a, long_bits)} :
           /\ index0' = st.index /\ ts0' = st.ts
           /\ prevFiles' = <<idxFile, txtFile, metaFile>>
           /\ index' = IF r.ok /\ st.index.count > 0
                       THEN VDB_Search_index(st.index, NoMask)
                       ELSE st.index
           /\ ts' = st.ts
           /\ op' = "recall" /\ args' = [long_bits |-> long_bits, vec |-> vec, argv |-> a]
           /\ IF ~r.ok
              THEN /\ exitCode' = 1 /\ out' = <<>> /\ err' = <<r.err>>
                   /\ results' = [k |-> r.k, called |-> FALSE, slots |-> <<>>]
              ELSE IF st.index.count > 0
              THEN \E sorted \in QsortOutcomes(AllResults(st.index, vec, NoMask)) :
                   \E res \in {VDB_Search(st.index, vec, r.k, NoMask, sorted)} :
                       /\ exitCode' = 0 /\ err' = <<>>
                       /\ out' = <<<<"Top", r.k, r.query>>>> \o recall_lines(res, st.ts, r.k, 0)
                       /\ results' = [k |-> r.k, called |-> TRUE, slots |-> res]
              ELSE /\ exitCode' = 0 /\ err' = <<>>
                   /\ out' = <<<<"Top", r.k, r.query>>>>
                   /\ results' = [k |-> r.k, called |-> FALSE, slots |-> <<>>]
           /\ UNCHANGED <<arena, run_state, gpu, tokenizer, idxFile, txtFile, metaFile, ms, ms0>>

\* The tool on a file system whose calls all succeed.
Next ==
    \/ \E a \in SaveArgs, vec \in EmbedOutputs : CmdSave(a, vec, IoAllOk)
    \/ CmdClear

Spec == Init /\ [][Next]_vars

\* Saves and recalls, on builds of either width of long.
NextRecall ==
    \/ \E a \in RecallSaveArgs, vec \in UnitVectors : CmdSave(a, vec, IoAllOk)
    \/ \E a \in RecallArgs, vec \in UnitVectors, long_bits \in LongWidths :
          CmdRecall(a, vec, long_bits)

SpecRecall == Init /\ [][NextRecall]_vars

\* The tool on a file system whose mkdir and fopen calls may fail.
IoMayFail(io) ==
    IF io = IoAllOk THEN TRUE
    ELSE IF idxFile.exists THEN idxFile.data[2] < TEXT_CAPACITY
    ELSE TRUE

\* (A save whose text write fails adds an index row and no text row, so
\* the index file can grow without end; failures stop once it holds
\* TEXT_CAPACITY rows.)
NextIO ==
    \/ \E a \in SaveArgsIO, vec \in EmbedOutputs, io \in IoOutcomes :
          /\ IoMayFail(io)
          /\ CmdSave(a, vec, io)
    \/ CmdClear

SpecIO == Init /\ [][NextIO]_vars

(***************************************************************************)
(* The library under its callers: the save branch of main and VDB_Search   *)
(* on an index created with any capacity.                                  *)
(***************************************************************************)
ApiSaveArgs == { <<W_a>> }

InitAPI ==
    /\ arena = NoArena /\ run_state = NoRunState /\ gpu = NoGpu
    /\ tokenizer = NoTokenizer
    /\ \E capacity \in {1, INDEX_CAPACITY} :
          index = VDB_Index_Create(DIM, VDB_METRIC_COSINE, capacity)
    /\ ts = TextStore_Init(TEXT_CAPACITY)
    /\ ms = NoMeta
    /\ idxFile = NoFile /\ txtFile = NoFile /\ metaFile = NoFile
    /\ index0 = NoIndex /\ ts0 = NoText /\ ms0 = NoMeta
    /\ prevFiles = <<NoFile, NoFile, NoFile>>
    /\ op = "init" /\ args = <<>> /\ exitCode = -1
    /\ out = <<>> /\ err = <<>> /\ results = <<>>

\* The save branch of main on the stores the process holds.
ApiSave(a, vec) ==
    \E r \in {main_save(index, ts, idxFile, txtFile, <<W_save>> \o a, vec, IoAllOk)} :
        /\ index0' = index /\ ts0' = ts
        /\ prevFiles' = <<idxFile, txtFile, metaFile>>
        /\ index' = r.index /\ ts' = r.ts
        /\ idxFile' = r.idxFile /\ txtFile' = r.txtFile
        /\ op' = "save" /\ args' = [io |-> IoAllOk, vec |-> vec, argv |-> a]
        /\ exitCode' = r.exitCode /\ out' = r.out /\ err' = r.err
        /\ results' = <<>>
        /\ UNCHANGED <<arena, run_state, gpu, tokenizer, metaFile, ms, ms0>>

\* The masks a caller can pass for the index: NULL, or one 0/1 byte per row.
Masks(idx) == {NoMask} \cup { Mask(b) : b \in [1..idx.count -> {0, 1}] }

\* VDB_Search(index, query_vec, k, mask, results)
ApiSearch(query_vec, k, mask) ==
    /\ \E sorted \in QsortOutcomes(AllResults(index, query_vec, mask)) :
          results' = VDB_Search(index, query_vec, k, mask, sorted)
    /\ op' = "search" /\ args' = [q |-> query_vec, mask |-> mask, k |-> k]
    /\ index0' = index /\ ts0' = ts
    /\ prevFiles' = <<idxFile, txtFile, metaFile>>
    /\ exitCode' = -1 /\ out' = <<>> /\ err' = <<>>
    /\ index' = VDB_Search_index(index, mask)
    /\ UNCHANGED <<arena, run_state, gpu, tokenizer, idxFile, txtFile, metaFile, ts, ms, ms0>>

NextAPI ==
    \/ \E a \in ApiSaveArgs, vec \in UnitVectors : ApiSave(a, vec)
    \/ \E q \in UnitVectors, k \in 1..MaxK, mask \in Masks(index) : ApiSearch(q, k, mask)

SpecAPI == InitAPI /\ [][NextAPI]_vars

(***************************************************************************)
(* Save, load into fresh stores, save again.                               *)
(***************************************************************************)
\* The rows the round trip is tried on.
\* What a row's id, note and metadata are drawn from: the id may be the
\* row's position (FALSE) or another number, the note may be empty, and the
\* metadata may be absent, empty or a flow string.
RtRows ==
    { [text |-> <<97, 98>>, otherId |-> FALSE, meta |-> Str(<<107, 58, 118>>)],
      [text |-> <<>>, otherId |-> FALSE, meta |-> Null],
      [text |-> <<97>>, otherId |-> TRUE, meta |-> Str(<<>>)],
      [text |-> <<98, 32>>, otherId |-> TRUE, meta |-> Str(<<123, 125>>)] }

InitRT ==
    /\ arena = NoArena /\ run_state = NoRunState /\ gpu = NoGpu
    /\ tokenizer = NoTokenizer
    /\ \E metric \in {VDB_METRIC_L2, VDB_METRIC_COSINE, VDB_METRIC_DOT} :
          index = VDB_Index_Create(DIM, metric, INDEX_CAPACITY)
    /\ ts = TextStore_Init(TEXT_CAPACITY)
    /\ ms = MetaStore_Init(TEXT_CAPACITY)
    /\ idxFile = NoFile /\ txtFile = NoFile /\ metaFile = NoFile
    /\ index0 = NoIndex /\ ts0 = NoText /\ ms0 = NoMeta
    /\ prevFiles = <<NoFile, NoFile, NoFile>>
    /\ op = "init" /\ args = <<>> /\ exitCode = -1
    /\ out = <<>> /\ err = <<>> /\ results = <<>>

\* One row is appended to the three stores.
RtAdd(row, vec) ==
    /\ op \in {"init", "add"}
    /\ index' = VDB_Index_Add(index, IF row.otherId THEN index.count + 5 ELSE index.count, vec)
    /\ ts' = TextStore_Add(ts, row.text)
    /\ ms' = MetaStore_Add(ms, row.meta)
    /\ op' = "add"
    /\ UNCHANGED <<arena, run_state, gpu, tokenizer, idxFile, txtFile, metaFile, index0, ts0, ms0, prevFiles,
                   args, exitCode, out, err, results>>

\* The three stores are saved.
RtSave ==
    /\ op \in {"init", "add"}
    /\ idxFile' = VDB_Index_Save(index, idxFile, TRUE)
    /\ txtFile' = TextStore_Save(ts, txtFile, TRUE)
    /\ metaFile' = MetaStore_Save(ms, metaFile, TRUE)
    /\ index0' = index /\ ts0' = ts /\ ms0' = ms
    /\ prevFiles' = <<idxFile, txtFile, metaFile>>
    /\ op' = "rt_save"
    /\ UNCHANGED <<arena, run_state, gpu, tokenizer, index, ts, ms, args, exitCode, out, err, results>>

\* A new process loads the files into fresh stores.
RtLoad ==
    /\ op = "rt_save"
    /\ VDB_Index_Load_ok(idxFile)
    /\ index' = VDB_Index_Load(idxFile)
    /\ ts' = TextStore_Load(TextStore_Init(TEXT_CAPACITY), txtFile)
    /\ ms' = MetaStore_Load(MetaStore_Init(TEXT_CAPACITY), metaFile)
    /\ op' = "rt_load"
    /\ UNCHANGED <<arena, run_state, gpu, tokenizer, idxFile, txtFile, metaFile, index0, ts0, ms0, prevFiles,
                   args, exitCode, out, err, results>>

\* The loaded stores are saved again.
RtResave ==
    /\ op = "rt_load"
    /\ idxFile' = VDB_Index_Save(index, idxFile, TRUE)
    /\ txtFile' = TextStore_Save(ts, txtFile, TRUE)
    /\ metaFile' = MetaStore_Save(ms, metaFile, TRUE)
    /\ prevFiles' = <<idxFile, txtFile, metaFile>>
    /\ op' = "rt_resave"
    /\ UNCHANGED <<arena, run_state, gpu, tokenizer, index, ts, ms, index0, ts0, ms0, args, exitCode, out, err, results>>

NextRT ==
    \/ \E row \in RtRows, vec \in EmbedOutputs : RtAdd(row, vec)
    \/ RtSave
    \/ RtLoad
    \/ RtResave

SpecRT == InitRT /\ [][NextRT]_vars

(***************************************************************************)
(* The metadata store and its filter.  Records and filter expressions are  *)
(* written as trees and given to the program as the flow strings they      *)
(* render to.                                                              *)
(***************************************************************************)
\* The most records the metadata store is given room for.
META_CAPACITY == 2

\* A value of a record or an operand of a filter: an integer, a bare string
\* or an array of bare strings.
DInt(n) == [s |-> <<>>, t |-> "int", i |-> n, items |-> <<>>]
DStr(str) == [s |-> str, t |-> "str", i |-> 0, items |-> <<>>]
DArr(items) == [s |-> <<>>, t |-> "arr", i |-> 0, items |-> items]

\* A field of a record, and a condition of a filter; oper is <<>> for a bare
\* value and the operator's name otherwise.
Field(k, v) == [val |-> v, key |-> k]
Cond(k, o, v) == [val |-> v, key |-> k, oper |-> o]

\* A filter of plain conditions, and a $or or $and of sub-mappings.
Plain(conds) == [conds |-> conds, kind |-> "fields", subs |-> <<>>]
Logical(kind, subs) == [conds |-> <<>>, kind |-> kind, subs |-> subs]

K_topic == B(<<"t", "o", "p", "i", "c">>)
K_ts == B(<<"t", "s">>)
K_tags == B(<<"t", "a", "g", "s">>)
K_name == B(<<"n", "a", "m", "e">>)
V_work == B(<<"w", "o", "r", "k">>)
V_home == B(<<"h", "o", "m", "e">>)
V_wo == B(<<"w", "o">>)
V_a == B(<<"a">>)
V_b == B(<<"b">>)
V_c == B(<<"c">>)

\* The seqs of a sequence joined by sep.
RECURSIVE JoinWith(_, _)
JoinWith(ss, sep) ==
    IF ss = <<>> THEN <<>>
    ELSE IF Len(ss) = 1 THEN ss[1]
    ELSE ss[1] \o sep \o JoinWith(Tail(ss), sep)

SEP == B(<<",", " ">>)
COLON == B(<<":", " ">>)

RenderVal(v) ==
    IF v.t = "int" THEN snprintf_d(v.i)
    ELSE IF v.t = "str" THEN v.s
    ELSE <<CH_LBRACKET>> \o JoinWith(v.items, SEP) \o <<CH_RBRACKET>>

RenderRecord(fields) ==
    <<CH_LBRACE>>
    \o JoinWith([i \in 1..Len(fields) |->
                    fields[i].key \o COLON \o RenderVal(fields[i].val)], SEP)
    \o <<CH_RBRACE>>

RenderCond(c) ==
    c.key \o COLON
    \o (IF c.oper = <<>> THEN RenderVal(c.val)
        ELSE <<CH_LBRACE>> \o c.oper \o COLON \o RenderVal(c.val) \o <<CH_RBRACE>>)

RenderConds(conds) ==
    <<CH_LBRACE>> \o JoinWith([i \in 1..Len(conds) |-> RenderCond(conds[i])], SEP)
    \o <<CH_RBRACE>>

RenderFilter(f) ==
    IF f.kind = "fields" THEN RenderConds(f.conds)
    ELSE <<CH_LBRACE>> \o (IF f.kind = "or" THEN KEY_OR ELSE KEY_AND) \o COLON
         \o <<CH_LBRACKET>>
         \o JoinWith([i \in 1..Len(f.subs) |-> RenderConds(f.subs[i])], SEP)
         \o <<CH_RBRACKET, CH_RBRACE>>

\* The records of the spec's examples, and records with an array, a negative
\* integer and a string that is a prefix of another.
Rec_work == <<Field(K_topic, DStr(V_work)), Field(K_ts, DInt(10))>>
Rec_home == <<Field(K_topic, DStr(V_home)), Field(K_ts, DInt(20))>>
Rec_tags == <<Field(K_tags, DArr(<<V_a, V_b>>)), Field(K_ts, DInt(5))>>
Rec_wo == <<Field(K_ts, DInt(-3)), Field(K_topic, DStr(V_wo))>>

DataRecords == {Rec_work, Rec_home, Rec_tags, Rec_wo}

\* The operators of the spec, and names that are none of them.
KnownOps == {OP_GTE, OP_LTE, OP_NE, OP_PREFIX, OP_CONTAINS}
OP_GT == B(<<"$", "g", "t">>)
OP_EQ == B(<<"$", "e", "q">>)
OP_NEQ == B(<<"$", "n", "e", "q">>)
OP_GTES == B(<<"$", "g", "t", "e", "s">>)
UnknownOps == {OP_GT, OP_EQ, OP_NEQ, OP_GTES}

\* The single conditions tried.
BareConds ==
    { Cond(K_topic, <<>>, DStr(V_work)), Cond(K_topic, <<>>, DStr(V_wo)),
      Cond(K_ts, <<>>, DInt(10)), Cond(K_ts, <<>>, DInt(-3)),
      Cond(K_tags, <<>>, DStr(V_a)), Cond(K_tags, <<>>, DStr(V_c)),
      Cond(K_topic, <<>>, DInt(10)), Cond(K_ts, <<>>, DStr(V_work)),
      Cond(K_name, <<>>, DStr(V_a)) }

OrdinalConds ==
    { Cond(K_ts, o, DInt(n)) : o \in {OP_GTE, OP_LTE}, n \in {-3, 10, 15} }
    \cup { Cond(K_topic, o, DStr(v)) : o \in {OP_GTE, OP_LTE}, v \in {V_wo, V_home, V_work} }
    \cup { Cond(K_tags, o, DStr(V_a)) : o \in {OP_GTE, OP_LTE} }

OtherOpConds ==
    { Cond(K_ts, OP_NE, DInt(10)), Cond(K_topic, OP_NE, DStr(V_work)),
      Cond(K_tags, OP_NE, DStr(V_a)),
      Cond(K_topic, OP_PREFIX, DStr(V_wo)), Cond(K_topic, OP_PREFIX, DStr(V_home)),
      Cond(K_tags, OP_CONTAINS, DStr(V_a)), Cond(K_tags, OP_CONTAINS, DStr(V_c)),
      Cond(K_topic, OP_CONTAINS, DStr(V_work)) }

AbsentKeyConds == { Cond(K_name, o, DStr(V_a)) : o \in KnownOps }

UnknownOpConds ==
    { Cond(K_ts, o, DInt(5)) : o \in UnknownOps }
    \cup { Cond(K_topic, o, DStr(V_work)) : o \in UnknownOps }

SingleConds == BareConds \cup OrdinalConds \cup OtherOpConds \cup AbsentKeyConds
               \cup UnknownOpConds

\* The filters tried: every single condition, conjunctions of two, the empty
\* filter, and $or and $and arrays of sub-mappings.
Filter_and2 == Plain(<<Cond(K_topic, <<>>, DStr(V_work)), Cond(K_ts, OP_GTE, DInt(10))>>)
Filter_and2_fail == Plain(<<Cond(K_topic, <<>>, DStr(V_work)), Cond(K_ts, OP_GTE, DInt(15))>>)
Filter_or_example ==
    Logical("or", << <<Cond(K_topic, <<>>, DStr(V_work))>>,
                     <<Cond(K_ts, OP_GTE, DInt(20))>> >>)
Filter_or_fail ==
    Logical("or", << <<Cond(K_topic, <<>>, DStr(V_a))>>,
                     <<Cond(K_ts, OP_GTE, DInt(99))>> >>)
Filter_and_pass ==
    Logical("and", << <<Cond(K_ts, OP_GTE, DInt(10))>>,
                      <<Cond(K_ts, OP_LTE, DInt(15))>> >>)
Filter_and_one ==
    Logical("and", << <<Cond(K_topic, <<>>, DStr(V_work))>> >>)

Filters ==
    { Plain(<<c>>) : c \in SingleConds }
    \cup { Plain(<<>>), Filter_and2, Filter_and2_fail,
           Filter_or_example, Filter_or_fail, Filter_and_pass, Filter_and_one }

\* The arenas of the filter model: one with room for every filter, one that
\* a filter of two records exhausts.
FilterArenaSizes == {2048, 8192}

InitFilter ==
    /\ \E size \in FilterArenaSizes :
          arena = PushAll(Arena__Init(0, size), MetaStore_Init_pushes(META_CAPACITY)).arena
    /\ run_state = NoRunState /\ gpu = NoGpu
    /\ tokenizer = NoTokenizer
    /\ idxFile = NoFile /\ txtFile = NoFile /\ metaFile = NoFile
    /\ index = NoIndex /\ ts = NoText /\ ms = MetaStore_Init(META_CAPACITY)
    /\ index0 = NoIndex /\ ts0 = NoText /\ ms0 = NoMeta
    /\ prevFiles = <<NoFile, NoFile, NoFile>>
    /\ op = "init" /\ args = <<>> /\ exitCode = -1
    /\ out = <<>> /\ err = <<>> /\ results = <<>>

\* MetaStore_Add of a record's flow string, or of NULL.
MetaAdd(yaml_flow) ==
    /\ op \notin {"filter", "trap"}
    /\ ms.count < ms.capacity
    /\ \E a \in {PushAll(arena, MetaStore_Add_pushes(ms, yaml_flow))} :
          IF a.trap
          THEN op' = "trap" /\ UNCHANGED <<ms, arena>>
          ELSE op' = "meta_add" /\ ms' = MetaStore_Add(ms, yaml_flow) /\ arena' = a.arena
    /\ args' = <<>>
    /\ results' = <<>>
    /\ UNCHANGED <<run_state, gpu, tokenizer, idxFile, txtFile, metaFile, index, ts,
                   index0, ts0, ms0, prevFiles, exitCode, out, err>>

\* MetaStore_Filter(ms, filter_expr, out_mask, mask_len).  It leaves the
\* store as it is, so it is tried once on each store.  It returns, or it
\* never does (the arena is then left as it was: what it holds while the
\* loop spins is not observed), or it ends in the trap of a push.  args
\* keeps the arena as it was; results.scratch lists the regions the call
\* pushed and wrote.
Filter(f, mask_len) ==
    /\ op \notin {"filter", "trap"}
    /\ args' = [arena |-> arena, filter |-> f, mask_len |-> mask_len]
    /\ \E r \in {MetaStore_Filter(ms, Str(RenderFilter(f)), mask_len)} :
          IF ~r.returned
          THEN /\ op' = "filter" /\ UNCHANGED arena
               /\ results' = [mask |-> r.mask, returned |-> FALSE, scratch |-> <<>>]
          ELSE \E a \in {PushAll(ArenaMark(arena),
                                 MetaStore_Filter_pushes(ms, Str(RenderFilter(f)), mask_len))} :
                  IF a.trap
                  THEN op' = "trap" /\ results' = <<>> /\ UNCHANGED arena
                  ELSE /\ op' = "filter"
                       /\ arena' = ArenaRestore(a.arena)
                       /\ results' = [mask |-> r.mask,
                                      returned |-> TRUE,
                                      scratch |-> SubSeq(a.arena.live, Len(arena.live) + 1,
                                                         Len(a.arena.live))]
    /\ UNCHANGED <<run_state, gpu, tokenizer, idxFile, txtFile, metaFile, index, ts, ms,
                   index0, ts0, ms0, prevFiles, exitCode, out, err>>

NextFilter ==
    \/ \E r \in DataRecords : MetaAdd(Str(RenderRecord(r)))
    \/ MetaAdd(Null)
    \/ \E f \in Filters, extra \in {0, 1} : Filter(f, ms.count + extra)

SpecFilter == InitFilter /\ [][NextFilter]_vars

(***************************************************************************)
(* The tokenizer on its own: Tokenizer__Init on a tokenizer file, then      *)
(* texts encoded and the tokens decoded one by one.                         *)
(***************************************************************************)
MaxText == 4
ALPHABET == {97, 98, 99}

\* The texts: every string over the alphabet of up to MaxText bytes.
Texts == UNION { [1..n -> ALPHABET] : n \in 0..MaxText }

Entry(score, chars) == [score |-> score, str |-> B(chars)]
TokFile(records) ==
    [records |-> records, max_token_length |-> 3]

\* Tokenizer files: merges of different priority, merges that tie, tokens
\* as long as the merge buffer, a score as low as the loop's starting
\* score, one string twice, and a byte without a token.
F_plain == TokFile(<<Entry(0, <<"a">>), Entry(0, <<"b">>), Entry(0, <<"c">>),
                     Entry(1, <<"a", "b">>), Entry(2, <<"b", "c">>),
                     Entry(1, <<"a", "b", "c">>)>>)
F_ties == TokFile(<<Entry(0, <<"a">>), Entry(0, <<"b">>), Entry(0, <<"c">>),
                    Entry(1, <<"a", "b">>), Entry(1, <<"b", "a">>),
                    Entry(1, <<"c", "c">>)>>)
F_long == TokFile(<<Entry(0, <<"a">>), Entry(0, <<"b">>), Entry(0, <<"c">>),
                    Entry(1, <<"a", "a">>), Entry(1, <<"a", "a", "a">>)>>)
F_low == TokFile(<<Entry(0, <<"a">>), Entry(0, <<"b">>), Entry(0, <<"c">>),
                   Entry(BEST_SCORE_0, <<"a", "b">>), Entry(-1, <<"b", "c">>)>>)
F_twice == TokFile(<<Entry(0, <<"a">>), Entry(0, <<"b">>), Entry(0, <<"c">>),
                     Entry(1, <<"a", "b">>), Entry(1, <<"a", "b">>)>>)
F_no_c == TokFile(<<Entry(0, <<"b">>), Entry(0, <<"a">>),
                    Entry(2, <<"b", "a">>), Entry(1, <<"a", "b">>)>>)
TokenizerFiles == {F_plain, F_ties, F_long, F_low, F_twice, F_no_c}

\* Tokenizer__Init(&tokenizer, file, vocab_size, arena)
TokInit(file, sorted) ==
    /\ op = "init"
    /\ tokenizer' = Tokenizer__Init(file, sorted)
    /\ op' = "Tokenizer__Init" /\ args' = [file |-> file]
    /\ UNCHANGED <<arena, run_state, gpu, idxFile, txtFile, metaFile, index, ts, ms, index0, ts0, ms0,
                   prevFiles, exitCode, out, err, results>>

\* Tokenizer__Encode(&tokenizer, text, tokens, &n_tokens)
TokEncode(text) ==
    /\ op = "Tokenizer__Init"
    /\ results' = Tokenizer__Encode(tokenizer, text)
    /\ op' = "Tokenizer__Encode" /\ args' = [text |-> text]
    /\ out' = <<>>
    /\ UNCHANGED <<arena, run_state, gpu, idxFile, txtFile, metaFile, index, ts, ms, index0, ts0, ms0,
                   prevFiles, exitCode, err, tokenizer>>

\* Tokenizer__Decode of each token of the last encoding, in order.
TokDecode ==
    /\ op = "Tokenizer__Encode"
    /\ out' = [i \in 1..results.n_tokens |->
                   Tokenizer__Decode(tokenizer, results.tokens[i],
                                     IF i = 1 THEN -1 ELSE results.tokens[i - 1])]
    /\ op' = "Tokenizer__Decode"
    /\ UNCHANGED <<arena, run_state, gpu, idxFile, txtFile, metaFile, index, ts, ms, index0, ts0, ms0,
                   prevFiles, args, exitCode, err, results, tokenizer>>

NextTok ==
    \/ \E file \in TokenizerFiles : \E sorted \in SortedVocabs([i \in 1..Len(file.records) |-> file.records[i].str]) :
          TokInit(file, sorted)
    \/ \E text \in Texts : TokEncode(text)
    \/ TokDecode

SpecTok == Init /\ [][NextTok]_vars

(***************************************************************************)
(* The arena on its own: pushes of any size, a mark and its restoration,    *)
(* and resets.                                                              *)
(***************************************************************************)
ARENA_SIZE == 24
MaxLive == 3

\* The page boundaries mmap can return.
ArenaBases == {0, 8, 32}

\* The lengths asked of Arena__Push: small ones, the whole arena, more
\* than the arena, and lengths near SIZE_MAX (a negative int converted
\* to size_t).
PushSizes == {0, 1, 3, 8, 13, ARENA_SIZE, ARENA_SIZE + 1, 2 ^ SIZE_BITS - 9, 2 ^ SIZE_BITS - 1}

\* Arena__Init(&arena, size)
ArenaInit(base) ==
    /\ op = "init"
    /\ arena' = Arena__Init(base, ARENA_SIZE)
    /\ op' = "Arena__Init" /\ args' = <<>> /\ results' = <<>>
    /\ UNCHANGED <<idxFile, txtFile, metaFile, index, ts, ms, index0, ts0, ms0,
                   prevFiles, exitCode, out, err, tokenizer, run_state, gpu>>

\* Arena__Push(&arena, size): the process ends in the trap, or the region
\* is returned.  args keeps the arena as it was.
ArenaPush(size) ==
    /\ op \notin {"init", "trap"}
    /\ Len(arena.live) < MaxLive
    /\ args' = [arena |-> arena, size |-> size]
    /\ IF PushTraps(arena, size)
       THEN /\ op' = "trap" /\ results' = <<>> /\ UNCHANGED arena
       ELSE /\ op' = "Arena__Push"
            /\ results' = [len |-> size, ptr |-> Arena__Push_ptr(arena)]
            /\ arena' = Arena__Push(arena, size)
    /\ UNCHANGED <<idxFile, txtFile, metaFile, index, ts, ms, index0, ts0, ms0,
                   prevFiles, exitCode, out, err, tokenizer, run_state, gpu>>

\* size_t saved_used = arena->used
ArenaDoMark ==
    /\ op \notin {"init", "trap"} /\ arena.saved_used = -1
    /\ arena' = ArenaMark(arena)
    /\ op' = "mark" /\ args' = <<>> /\ results' = <<>>
    /\ UNCHANGED <<idxFile, txtFile, metaFile, index, ts, ms, index0, ts0, ms0,
                   prevFiles, exitCode, out, err, tokenizer, run_state, gpu>>

\* arena->used = saved_used
ArenaDoRestore ==
    /\ op \notin {"init", "trap"} /\ arena.saved_used # -1
    /\ arena' = ArenaRestore(arena)
    /\ op' = "restore" /\ args' = <<>> /\ results' = <<>>
    /\ UNCHANGED <<idxFile, txtFile, metaFile, index, ts, ms, index0, ts0, ms0,
                   prevFiles, exitCode, out, err, tokenizer, run_state, gpu>>

\* Arena__Reset(&arena)
ArenaDoReset ==
    /\ op \notin {"init", "trap", "Arena__Init", "Arena__Reset"}
    /\ arena' = Arena__Reset(arena)
    /\ op' = "Arena__Reset" /\ args' = <<>> /\ results' = <<>>
    /\ UNCHANGED <<idxFile, txtFile, metaFile, index, ts, ms, index0, ts0, ms0,
                   prevFiles, exitCode, out, err, tokenizer, run_state, gpu>>

NextArena ==
    \/ \E base \in ArenaBases : ArenaInit(base)
    \/ \E size \in PushSizes : ArenaPush(size)
    \/ ArenaDoMark
    \/ ArenaDoRestore
    \/ ArenaDoReset

SpecArena == Init /\ [][NextArena]_vars

(***************************************************************************)
(* Observations on a finished command.                                     *)
(***************************************************************************)
\* Row i (C position) of an index's vectors.
Row(idx, i) == SubSeq(idx.vectors, i * idx.dim + 1, (i + 1) * idx.dim)

\* The record counts the two files state.
IndexFileCount == IF idxFile.exists THEN idxFile.data[2] ELSE 0
TextFileCount == IF txtFile.exists THEN txtFile.data[1] ELSE 0

\* The leading <id> of the last save command, when it has one.
SaveHasId == op = "save" /\ Len(args.argv) >= 2 /\ is_integer(args.argv[1])
SaveId == strtol(args.argv[1])

\* The last command was a save that ran save_state to its end and printed
\* the Memorized line.
SavePersisted == op = "save" /\ exitCode = 0

C2_IdIsRow ==
    op = "save" =>
        /\ \A i \in 1..index.count : index.ids[i] = i - 1
        /\ idxFile.exists =>
              \A i \in 1..IndexFileCount : idxFile.data[3 + i] = i - 1
        /\ (SavePersisted /\ index.count = index0.count + 1) =>
              /\ out[3] = index0.count
              /\ index.ids[out[3] + 1] = out[3]
              /\ Row(index, out[3]) = args.vec
              /\ ts.lines[out[3] + 1] = out[2]

\* C2 witness: the second note of a database was given id 1.
C2_Witness ==
    /\ SavePersisted /\ index.count = index0.count + 1
    /\ out[3] = 1 /\ IndexFileCount = 2 /\ idxFile.data[5] = 1

\* C3 (as the spec states it): when a write of a save fails, the files are
\* left as the previous save wrote them, and the two files never state
\* different record counts.
C3_SaveAllOrNothing ==
    /\ (op = "save" /\ (~args.io.dir \/ ~args.io.idx \/ ~args.io.txt)) =>
           <<idxFile, txtFile, metaFile>> = prevFiles
    /\ (idxFile.exists /\ txtFile.exists) => IndexFileCount = TextFileCount
    /\ idxFile.exists <=> txtFile.exists

\* C4 (as the spec states it): a save whose leading integer is not the
\* position of an existing row fails and changes nothing.
C4_UnknownIdRejected ==
    (SaveHasId /\ SaveId \notin 0..(ts0.count - 1)) =>
        /\ exitCode # 0
        /\ err # <<>>
        /\ index = index0 /\ ts = ts0
        /\ <<idxFile, txtFile, metaFile>> = prevFiles

\* The last command was a save that replaced an existing row.
OverrideDone == SavePersisted /\ SaveHasId /\ SaveId >= 0

\* C10: an override save replaces the text and the vector of its row and
\* nothing else: the counts, every id and every other row stay as loaded.
C10_OverrideFrame ==
    OverrideDone =>
        /\ index.count = index0.count /\ ts.count = ts0.count
        /\ index.ids = index0.ids
        /\ index.dim = index0.dim /\ index.metric = index0.metric
        /\ index.capacity = index0.capacity /\ ts.capacity = ts0.capacity
        /\ Len(index.vectors) = Len(index0.vectors)
        /\ \A r \in 0..(index.count - 1) :
              IF r = SaveId
              THEN /\ Row(index, r) = args.vec
                   /\ ts.lines[r + 1] = out[2]
              ELSE /\ Row(index, r) = Row(index0, r)
                   /\ ts.lines[r + 1] = ts0.lines[r + 1]

\* C10 witness: row 1 of a two-row database was replaced by a note and a
\* vector that differ from the ones it held.
C10_Witness ==
    /\ OverrideDone /\ SaveId = 1 /\ index.count = 2
    /\ Row(index, 1) # Row(index0, 1) /\ ts.lines[2] # ts0.lines[2]
    /\ Row(index, 0) # Row(index, 1)

\* The last save called VDB_Index_Add on a full index: it took the append
\* path, the text store took the note, and the index had no room.
AddOnFullIndex ==
    /\ op = "save" /\ ~SaveHasId
    /\ ts.count = ts0.count + 1
    /\ index0.count = index0.capacity

\* C5 (as the spec states it): VDB_Index_Add on a full index leaves the
\* index as it was and fails in a way its caller sees, so the save is
\* neither persisted nor reported as memorized.
C5_FullAddFails ==
    AddOnFullIndex =>
        /\ index.count = index0.count
        /\ index.ids = index0.ids /\ index.vectors = index0.vectors
        /\ exitCode # 0
        /\ out = <<>>
        /\ <<idxFile, txtFile, metaFile>> = prevFiles

\* The rows (C positions + 1) the last search had to score.
Searched ==
    IF args.mask.given THEN { i \in 1..index.count : args.mask.bits[i] = 1 }
    ELSE 1..index.count

\* The number of slots that hold a row: min(k, n_search).
Filled == Min(args.k, Cardinality(Searched))

\* The score of row i against the query of the last search.
ScoreOf(i) ==
    Similarity(IF index.metric = VDB_METRIC_DOT THEN 2 ELSE 1,
               SubSeq(index.vectors, (i - 1) * index.dim + 1, i * index.dim),
               args.q)

\* C6: VDB_Search fills exactly k slots: the first min(k, n_search) hold
\* distinct searched rows, none of which scores lower than a searched row
\* left out, and every other slot holds {id 0, score -1.0}.
C6_SlotsFilled ==
    op = "search" =>
        /\ Len(results) = args.k
        /\ \A i \in (Filled + 1)..args.k : results[i] = [id |-> 0, score |-> -1]
        /\ \A i \in 1..Filled :
              \E r \in Searched : /\ results[i].id = index.ids[r]
                                  /\ results[i].score = ScoreOf(r)
        /\ \A i, j \in 1..Filled : i # j => results[i].id # results[j].id
        /\ \A r \in Searched :
              (\A i \in 1..Filled : results[i].id # index.ids[r]) =>
                  \A i \in 1..Filled : results[i].score >= ScoreOf(r)

\* C6 witness: a masked search that leaves rows out, keeps the better of two
\* searched rows and pads.
C6_Witness ==
    /\ op = "search" /\ args.mask.given
    /\ Cardinality(Searched) = 1 /\ index.count = 2 /\ args.k = 3
    /\ results[1].score = 1 /\ results[2].score = -1

\* C7 (as the spec states it): the rows are in descending score order, rows
\* of equal score in ascending id order, and of rows of equal score the one
\* with the lower id is kept.
C7_TieBreakByLowerId ==
    op = "search" =>
        /\ \A i, j \in 1..Filled :
              i < j => \/ results[i].score > results[j].score
                       \/ /\ results[i].score = results[j].score
                          /\ results[i].id < results[j].id
        /\ \A r \in Searched, i \in 1..Filled :
              ((\A j \in 1..Filled : results[j].id # index.ids[r])
                  /\ ScoreOf(r) = results[i].score) => results[i].id < index.ids[r]

\* C8 (as the spec states it): the id in every one of the k slots is the id
\* of a searched row.
C8_EverySlotSearched ==
    op = "search" =>
        \A i \in 1..args.k : \E r \in Searched : results[i].id = index.ids[r]

\* C8, amended: the id in each of the first min(k, n_search) slots is the id
\* of a searched row; the slots after them hold the padding id 0.
C8_FilledSlotsSearched ==
    op = "search" =>
        /\ \A i \in 1..Filled : \E r \in Searched : results[i].id = index.ids[r]
        /\ \A i \in (Filled + 1)..args.k : results[i].id = 0

\* C8 witness: row 0 is masked out, row 1 is found, and a slot is padded
\* with id 0.
C8_Witness ==
    /\ op = "search" /\ args.mask.given /\ index.count = 2
    /\ args.mask.bits = <<0, 1>> /\ args.k = 2
    /\ results[1].id = 1 /\ results[2].id = 0

\* C9: what is loaded into fresh stores is what was saved (dim, count,
\* metric, ids, vectors, the notes and the metadata records), and saving what
\* was loaded writes the same three files.
C9_RoundTrip ==
    /\ op \in {"rt_load", "rt_resave"} =>
          /\ index.dim = index0.dim /\ index.count = index0.count
          /\ index.metric = index0.metric
          /\ index.ids = index0.ids /\ index.vectors = index0.vectors
          /\ ts.count = ts0.count /\ ts.lines = ts0.lines
          /\ ms.count = ms0.count /\ ms.raw = ms0.raw
    /\ op = "rt_resave" => <<idxFile, txtFile, metaFile>> = prevFiles

\* C9 witness: a dot-product index of two rows, one with an id that is not
\* its position, an empty note and an absent metadata record went through
\* save, load and save.
C9_Witness ==
    /\ op = "rt_resave" /\ index.count = 2 /\ index.metric = VDB_METRIC_DOT
    /\ index.ids[2] # 1 /\ ts.lines[1] = <<>> /\ ms.raw[1] = Null
    /\ ~ms.raw[2].isNull /\ \E j \in 1..Len(index.vectors) : index.vectors[j] # 0

(***************************************************************************)
(* The filter semantics of the specification, on records and filters as    *)
(* trees.                                                                  *)
(***************************************************************************)
\* a <= b in lexicographic byte order.
RECURSIVE LexLeq(_, _)
LexLeq(a, b) ==
    IF a = <<>> THEN TRUE
    ELSE IF b = <<>> THEN FALSE
    ELSE IF a[1] < b[1] THEN TRUE
    ELSE IF a[1] > b[1] THEN FALSE
    ELSE LexLeq(Tail(a), Tail(b))

\* Equality of a data value and a bare value: integers by value, strings by
\* their bytes, arrays by membership.
RefEqual(dv, v) ==
    IF dv.t = "int" THEN v.t = "int" /\ dv.i = v.i
    ELSE IF dv.t = "str" THEN v.t = "str" /\ dv.s = v.s
    ELSE \E j \in 1..Len(dv.items) : dv.items[j] = RenderVal(v)

\* dv >= v and dv <= v: numeric on integers, lexicographic on strings.
RefGte(dv, v) ==
    \/ dv.t = "int" /\ v.t = "int" /\ dv.i >= v.i
    \/ dv.t = "str" /\ v.t = "str" /\ LexLeq(v.s, dv.s)

RefLte(dv, v) ==
    \/ dv.t = "int" /\ v.t = "int" /\ dv.i <= v.i
    \/ dv.t = "str" /\ v.t = "str" /\ LexLeq(dv.s, v.s)

HasKey(rec, key) == \E j \in 1..Len(rec) : rec[j].key = key
ValueOf(rec, key) == rec[CHOOSE j \in 1..Len(rec) : rec[j].key = key].val

\* Whether a record passes a condition.
RefCond(rec, c) ==
    /\ HasKey(rec, c.key)
    /\ LET dv == ValueOf(rec, c.key)
       IN  IF c.oper = <<>> THEN RefEqual(dv, c.val)
           ELSE IF c.oper = OP_GTE THEN RefGte(dv, c.val)
           ELSE IF c.oper = OP_LTE THEN RefLte(dv, c.val)
           ELSE IF c.oper = OP_NE THEN ~RefEqual(dv, c.val)
           ELSE IF c.oper = OP_PREFIX
           THEN dv.t = "str" /\ c.val.t = "str" /\ Len(dv.s) >= Len(c.val.s)
                /\ SubSeq(dv.s, 1, Len(c.val.s)) = c.val.s
           ELSE IF c.oper = OP_CONTAINS
           THEN dv.t = "arr" /\ \E j \in 1..Len(dv.items) : dv.items[j] = RenderVal(c.val)
           ELSE FALSE

RefConds(rec, conds) == \A j \in 1..Len(conds) : RefCond(rec, conds[j])

\* Whether a record passes a filter.
RefFilter(rec, f) ==
    IF f.kind = "fields" THEN RefConds(rec, f.conds)
    ELSE IF f.kind = "or" THEN \E j \in 1..Len(f.subs) : RefConds(rec, f.subs[j])
    ELSE \A j \in 1..Len(f.subs) : RefConds(rec, f.subs[j])

\* The record whose flow string is stored at position i of the store.
HasRecord(i) == i >= 1 /\ i <= ms.count /\ ~ms.raw[i].isNull
RecordAt(i) == CHOOSE r \in DataRecords : RenderRecord(r) = ms.raw[i].s

\* The mask the specification asks of the last filter.
ExpectedMask ==
    [i \in 1..args.mask_len |->
        IF HasRecord(i) /\ RefFilter(RecordAt(i), args.filter) THEN 1 ELSE 0]

\* The last operation was a filter of one condition.
SingleCond == op = "filter" /\ args.filter.kind = "fields" /\ Len(args.filter.conds) = 1
TheCond == args.filter.conds[1]

\* The store holds the two records of the examples.
ExampleStore ==
    /\ ms.count = 2
    /\ ms.raw[1] = Str(RenderRecord(Rec_work))
    /\ ms.raw[2] = Str(RenderRecord(Rec_home))

\* C11 (as the spec states it): MetaStore_Filter returns with out_mask[i] = 1
\* exactly for the records below count that pass every condition of the
\* filter, and 0 at every other position of the mask.
C11_MaskIsConjunction ==
    op = "filter" => results.returned /\ results.mask = ExpectedMask

\* C12 (as the spec states it): a $or of sub-mappings passes a record iff one
\* of the sub-mappings passes it; the example filter gives [1, 1].
C12_OrPassesIfAny ==
    (op = "filter" /\ args.filter.kind = "or") =>
        /\ results.returned /\ results.mask = ExpectedMask
        /\ (ExampleStore /\ args.filter = Filter_or_example /\ args.mask_len = 2)
              => results.mask = <<1, 1>>

\* C13 (as the spec states it): a $and of sub-mappings passes a record iff
\* every sub-mapping passes it.
C13_AndPassesIfAll ==
    (op = "filter" /\ args.filter.kind = "and") =>
        results.returned /\ results.mask = ExpectedMask

\* C14: $gte and $lte compare an integer field with an integer operand
\* numerically and a string field with a string operand in lexicographic
\* byte order.
C14_OrdinalComparison ==
    (SingleCond /\ TheCond.oper \in {OP_GTE, OP_LTE}) =>
        /\ results.returned
        /\ \A i \in 1..ms.count :
              (HasRecord(i) /\ HasKey(RecordAt(i), TheCond.key)
                  /\ ValueOf(RecordAt(i), TheCond.key).t = TheCond.val.t) =>
                 LET dv == ValueOf(RecordAt(i), TheCond.key)
                 IN  results.mask[i] =
                        IF TheCond.oper = OP_GTE
                        THEN (IF RefGte(dv, TheCond.val) THEN 1 ELSE 0)
                        ELSE (IF RefLte(dv, TheCond.val) THEN 1 ELSE 0)

\* C14 witness: {ts: {$gte: 15}} on the example records gives [0, 1].
C14_Witness ==
    /\ op = "filter" /\ ExampleStore /\ args.mask_len = 2
    /\ args.filter = Plain(<<Cond(K_ts, OP_GTE, DInt(15))>>)
    /\ results.returned /\ results.mask = <<0, 1>>

\* C15 (as the spec states it): a condition whose operator is none of $gte,
\* $lte, $ne, $prefix and $contains fails for every record.
C15_UnknownOperatorFails ==
    (SingleCond /\ TheCond.oper # <<>> /\ TheCond.oper \notin KnownOps) =>
        results.returned /\ \A i \in 1..args.mask_len : results.mask[i] = 0

\* C16: a bare-value condition passes a record iff the record's field for
\* the key equals the value: integers by value, strings by their bytes,
\* arrays by membership.
C16_BareValueEquality ==
    (SingleCond /\ TheCond.oper = <<>>) =>
        /\ results.returned
        /\ \A i \in 1..ms.count :
              results.mask[i] =
                 IF HasRecord(i) /\ HasKey(RecordAt(i), TheCond.key)
                    /\ RefEqual(ValueOf(RecordAt(i), TheCond.key), TheCond.val)
                 THEN 1 ELSE 0

\* C16 witness: {topic: work} on the example records gives [1, 0].
C16_Witness ==
    /\ op = "filter" /\ ExampleStore /\ args.mask_len = 2
    /\ args.filter = Plain(<<Cond(K_topic, <<>>, DStr(V_work))>>)
    /\ results.returned /\ results.mask = <<1, 0>>

\* C17: a condition on a key the record does not have fails, for a bare
\* value and for every operator, $ne included.
C17_AbsentKeyFails ==
    SingleCond =>
        \A i \in 1..ms.count :
            (HasRecord(i) /\ ~HasKey(RecordAt(i), TheCond.key)) =>
                results.returned /\ results.mask[i] = 0

\* C17 witness: {name: {$ne: a}} on a record without the key name gives 0.
C17_Witness ==
    /\ op = "filter" /\ ms.count >= 1 /\ ms.raw[1] = Str(RenderRecord(Rec_work))
    /\ args.filter = Plain(<<Cond(K_name, OP_NE, DStr(V_a))>>)
    /\ results.returned /\ results.mask[1] = 0

(***************************************************************************)
(* Recall's k.                                                             *)
(***************************************************************************)
\* A recall that called VDB_Search.
RecallSearched == op = "recall" /\ exitCode = 0 /\ results.called

\* -k N and a query were given.
KGiven ==
    /\ Len(args.argv) >= 3 /\ args.argv[1] = W_k
    /\ \E n \in KNumbers : args.argv[2] = snprintf_d(n)

\* The N of -k N.
KGivenValue == CHOOSE n \in KNumbers : args.argv[2] = snprintf_d(n)

\* n clamped into [1, 100].
Clamp(n) == IF n < 1 THEN 1 ELSE IF n > 100 THEN 100 ELSE n

\* C18: the k recall passes to VDB_Search is 2 when -k is not given and
\* otherwise the given integer clamped into [1, 100], and it never exceeds
\* the 100 slots of the result buffer.
C18_RecallK ==
    RecallSearched =>
        /\ results.k = (IF KGiven THEN Clamp(KGivenValue)
                        ELSE IF args.argv[1] = W_k THEN results.k ELSE 2)
        /\ results.k <= RESULT_SLOTS
        /\ Len(results.slots) = results.k

\* The half of C18 that holds on every build: k is within [1, 100] and
\* within the buffer, is 2 without -k, and is the clamped N when N fits
\* an int.
C18_RecallKInRange ==
    RecallSearched =>
        /\ results.k >= 1 /\ results.k <= 100 /\ results.k <= RESULT_SLOTS
        /\ (args.argv[1] # W_k) => results.k = 2
        /\ (KGiven /\ KGivenValue >= -128 /\ KGivenValue <= 127)
               => results.k = Clamp(KGivenValue)

(***************************************************************************)
(* Tokenizer.                                                              *)
(***************************************************************************)
\* The literal of a token id, and of the adjacent pair at i (from 0).
Literal(id) == tokenizer.vocab[id + 1]
PairLiteral(tokens, i) == Literal(tokens[i + 1]) \o Literal(tokens[i + 2])

\* The ids of the vocabulary entries whose string is str.
EntriesOf(str) == { id \in 0..(tokenizer.vocab_size - 1) : Literal(id) = str }
InVocab(str) == EntriesOf(str) # {}
EntryScore(str) == tokenizer.vocab_scores[(CHOOSE id \in EntriesOf(str) : TRUE) + 1]

\* Every byte of the text is a single-byte vocabulary token.
BytesCovered == \A i \in 1..Len(args.text) : InVocab(<<args.text[i]>>)

\* C19: for a text whose bytes all are single-byte tokens, the literals of
\* the tokens Tokenizer__Encode produced, decoded in order and concatenated,
\* are the text.
C19_DecodeOfEncode ==
    (op = "Tokenizer__Decode" /\ BytesCovered) => Flatten(out) = args.text

\* The pairs of tokens whose concatenation is a vocabulary entry.
Mergeable(tokens) ==
    { i \in 0..(Len(tokens) - 2) : InVocab(PairLiteral(tokens, i)) }

\* The pair a merge step is to choose: the best score, leftmost on ties.
BestPair(tokens) ==
    CHOOSE i \in Mergeable(tokens) :
        \A j \in Mergeable(tokens) :
            \/ EntryScore(PairLiteral(tokens, j)) < EntryScore(PairLiteral(tokens, i))
            \/ EntryScore(PairLiteral(tokens, j)) = EntryScore(PairLiteral(tokens, i)) /\ i <= j

\* The tokens after step j of the last encoding.
TokensAfter(j) ==
    IF j < Len(results.steps) THEN results.steps[j + 1].before ELSE results.tokens

\* C20: each merge step replaces the adjacent pair whose concatenation is
\* the vocabulary entry of highest score, the leftmost on ties, by that
\* entry's id and keeps the other tokens in order; the encoding stops, and
\* stops exactly when no adjacent pair's concatenation is in the vocabulary.
MergeStepsAsClaimed ==
        /\ \A j \in 1..Len(results.steps) :
              LET step == results.steps[j]
              IN  /\ Mergeable(step.before) # {}
                  /\ step.best_idx = BestPair(step.before)
                  /\ step.best_id \in EntriesOf(PairLiteral(step.before, step.best_idx))
                  /\ TokensAfter(j) =
                        SubSeq(step.before, 1, step.best_idx) \o <<step.best_id>>
                            \o SubSeq(step.before, step.best_idx + 3, Len(step.before))
        /\ Mergeable(results.tokens) = {}
        /\ results.n_tokens = Len(results.tokens)

C20_MergeSteps == op = "Tokenizer__Encode" => MergeStepsAsClaimed

\* What holds of the tokenizer as it is: C19 when no merged pair's
\* concatenation fills the merge buffer, and C20 when besides no scanned
\* pair does and every score is above the loop's starting score.
MergedWithinBuffer ==
    \A j \in 1..Len(results.steps) :
        Len(PairLiteral(results.steps[j].before, results.steps[j].best_idx)) < ENCODE_BUF

ScannedWithinBuffer ==
    \A j \in 1..(Len(results.steps) + 1) :
        \A i \in 0..(Len(TokensAfter(j - 1)) - 2) :
            Len(PairLiteral(TokensAfter(j - 1), i)) < ENCODE_BUF

C19_DecodeOfEncodeWithinBuffer ==
    (op = "Tokenizer__Decode" /\ BytesCovered /\ MergedWithinBuffer)
        => Flatten(out) = args.text

C20_MergeStepsWithinBuffer ==
    (/\ op = "Tokenizer__Encode"
     /\ ScannedWithinBuffer
     /\ \A id \in 1..tokenizer.vocab_size : tokenizer.vocab_scores[id] > BEST_SCORE_0)
        => MergeStepsAsClaimed


(***************************************************************************)
(* Ordinal operators on arrays, and the filter's termination.              *)
(***************************************************************************)
\* C27: $gte and $lte on a data field whose value is an array never pass.
C27_OrdinalOnArrayFails ==
    (SingleCond /\ TheCond.oper \in {OP_GTE, OP_LTE}) =>
        \A i \in 1..ms.count :
            (/\ HasRecord(i) /\ HasKey(RecordAt(i), TheCond.key)
             /\ ValueOf(RecordAt(i), TheCond.key).t = "arr")
                => results.returned /\ results.mask[i] = 0

\* C28: MetaStore_Filter returns, for every filter expression and every
\* stored metadata string.
C28_FilterTerminates == op = "filter" => results.returned


(***************************************************************************)
(* The arena.                                                              *)
(***************************************************************************)
\* Two regions share a byte.
Overlap(r1, r2) ==
    /\ r1.len > 0 /\ r2.len > 0
    /\ r1.ptr < r2.ptr + r2.len /\ r2.ptr < r1.ptr + r1.len

\* The arena before the last push, and the padding that push needed.
ArenaBefore == args.arena
PaddingNeeded == (8 - ((ArenaBefore.base + ArenaBefore.used) % 8)) % 8

\* What C22 asks of a push that returned and of one that trapped.
PushAsClaimed ==
    /\ op = "Arena__Push" =>
          /\ results.ptr % 8 = 0
          /\ results.len = args.size
          /\ results.ptr >= arena.base
          /\ results.ptr + results.len <= arena.base + arena.size
          /\ \A j \in 1..Len(ArenaBefore.live) : ~Overlap(results, ArenaBefore.live[j])
          /\ arena.used = ArenaBefore.used + PaddingNeeded + args.size
          /\ ArenaBefore.used + PaddingNeeded + args.size <= arena.size
    /\ op = "trap" => ArenaBefore.used + PaddingNeeded + args.size > arena.size

\* C22: after any sequence of pushes, marks, restorations and resets,
\* used <= size; a push returns an 8-byte-aligned region of the length asked
\* for, inside the arena, that overlaps no live allocation, and advances used
\* by the padding plus the length; a push that would exceed size traps.
C22_PushSafety ==
    op \in {"Arena__Init", "Arena__Push", "trap", "mark", "restore", "Arena__Reset"} =>
        arena.used <= arena.size /\ PushAsClaimed

\* What holds of Arena__Push as it is: on an arena whose live allocations
\* lie below used, a push of a length that, added to used and the padding,
\* does not pass SIZE_MAX is as C22 says.
WellFormed(a) ==
    /\ a.used <= a.size
    /\ \A j \in 1..Len(a.live) : a.live[j].ptr + a.live[j].len <= a.base + a.used

C22_PushSafetyWithoutWrap ==
    (/\ op \in {"Arena__Push", "trap"}
     /\ WellFormed(ArenaBefore)
     /\ args.size <= ARENA_SIZE + 1)
        => WellFormed(arena) /\ PushAsClaimed

(***************************************************************************)
(* The filter's use of the arena.                                          *)
(***************************************************************************)
\* C21: MetaStore_Filter returns with arena.used as it was at entry, and the
\* regions it wrote share no byte with an allocation made before the call.
C21_FilterLeavesArena ==
    (op = "filter" /\ results.returned) =>
        /\ arena.used = args.arena.used
        /\ arena.live = args.arena.live
        /\ \A j \in 1..Len(results.scratch) : \A l \in 1..Len(args.arena.live) :
              ~Overlap(results.scratch[j], args.arena.live[l])

\* C21 witness: a filter on two stored records that pushed the fields
\* arrays of three parses and more, and returned.
C21_Witness ==
    /\ op = "filter" /\ results.returned /\ ExampleStore
    /\ Len(results.scratch) >= 8
    /\ Len(args.arena.live) = 3


(***************************************************************************)
(* The transformer: src/src/llm_model.c (LLM__Load, LLM__InitState),       *)
(* src/src/inference.c (LLM__Forward) and src/src/main.c (Init_LLM,        *)
(* embed_text_llm).  Pointers are byte addresses; a f32 takes SIZEOF_f32   *)
(* bytes.  The arena of main is scaled down with the width of size_t, and  *)
(* u32 with it, so that the arena's floats still fit a u32.                *)
(***************************************************************************)
SIZEOF_f32 == 4
U32_BITS == 12
LLM_ARENA_SIZE == 8192
MaxDim == 4
MaxLayers == 2
MaxSeqLen == 2
MaxTokens == 3
MaxEmbeddings == 2

u32(n) == n % (2 ^ U32_BITS)

\* The Config headers of the model: those the loader accepts and the claim
\* is about (dim % n_heads == 0, n_heads % n_kv_heads == 0).
Configs ==
    { p \in [dim : 1..MaxDim,
             vocab_size : {3},
             hidden_dim : {3},
             n_layers : 1..MaxLayers,
             n_heads : 1..2,
             n_kv_heads : 1..2,
             seq_len : 1..MaxSeqLen] :
        /\ p.dim % p.n_heads = 0
        /\ p.n_heads % p.n_kv_heads = 0 }

head_size(p) == p.dim \div p.n_heads
kv_dim(p) == (p.dim * p.n_kv_heads) \div p.n_heads
kv_mul(p) == p.n_heads \div p.n_kv_heads

\* wcls_size, and whether the file holds a classifier of its own after the
\* eleven tensors (remaining >= wcls_size).
wcls_size(p) == size_t(p.vocab_size * p.dim * SIZEOF_f32)
has_wcls(p, remaining) == remaining >= wcls_size(p)
Remainings(p) == {0, wcls_size(p) - 1, wcls_size(p)}

\* The counts of ALLOC_AND_READ, in the order of the calls.
LLM__Load_counts(p, remaining) ==
    << p.vocab_size * p.dim,
       p.n_layers * p.dim,
       p.n_layers * p.dim * (p.n_heads * head_size(p)),
       p.n_layers * p.dim * (p.n_kv_heads * head_size(p)),
       p.n_layers * p.dim * (p.n_kv_heads * head_size(p)),
       p.n_layers * (p.n_heads * head_size(p)) * p.dim,
       p.n_layers * p.dim,
       p.n_layers * p.hidden_dim * p.dim,
       p.n_layers * p.dim * p.hidden_dim,
       p.n_layers * p.hidden_dim * p.dim,
       p.dim >>
    \o (IF has_wcls(p, remaining) THEN << p.vocab_size * p.dim >> ELSE <<>>)

Bytes(counts) == [i \in DOMAIN counts |-> size_t(counts[i] * SIZEOF_f32)]

\* LLM__Load: the tensors pushed on the arena one after another; wcls is
\* the embedding table when the file has no classifier of its own.
LLM__Load(a, p, remaining) ==
    LET n0 == Len(a.live)
        r == PushAll(a, Bytes(LLM__Load_counts(p, remaining)))
        ptr(i) == r.arena.live[n0 + i].ptr
    IN  [arena |-> r.arena,
         trap |-> r.trap,
         weights |->
            IF r.trap THEN <<>>
            ELSE [token_embedding_table |-> ptr(1), rms_att_weight |-> ptr(2),
                  wq |-> ptr(3), wk |-> ptr(4), wv |-> ptr(5), wo |-> ptr(6),
                  rms_ffn_weight |-> ptr(7), w1 |-> ptr(8), w2 |-> ptr(9),
                  w3 |-> ptr(10), rms_final_weight |-> ptr(11),
                  wcls |-> IF has_wcls(p, remaining) THEN ptr(12) ELSE ptr(1)]]

\* LLM_VulkanCtx__UploadWeights(data, size): the bytes [data, data + size)
\* copied to the device-local weights buffer.
LLM_VulkanCtx__UploadWeights(data, size) == [data |-> data, size |-> size]

\* The counts LLM__InitState pushes, in order: x, xb, xb2, hb, hb2, q, k, v,
\* att, logits, key_cache, value_cache.
LLM__InitState_counts(p) ==
    << p.dim, p.dim, p.dim, p.hidden_dim, p.hidden_dim, p.dim,
       kv_dim(p), kv_dim(p), p.n_heads * p.seq_len, p.vocab_size,
       p.n_layers * p.seq_len * kv_dim(p),
       p.n_layers * p.seq_len * kv_dim(p) >>

\* The floats of the key cache, and those the model keeps after it to see
\* the writes that leave it.
KvCells(p) == 0 .. ((p.n_layers * p.seq_len + MaxTokens) * kv_dim(p) - 1)

NoTag == [l |-> -1, emb |-> 0, pos |-> -1]

LLM__InitState(a, p) ==
    LET n0 == Len(a.live)
        r == PushAll(a, Bytes(LLM__InitState_counts(p)))
        ptr(i) == r.arena.live[n0 + i].ptr
    IN  [arena |-> r.arena,
         s |-> IF r.trap THEN <<>>
               ELSE [x |-> ptr(1),
                     v |-> ptr(8),
                     q |-> ptr(6),
                     k |-> ptr(7),
                     xb |-> ptr(2),
                     xb2 |-> ptr(3),
                     hb |-> ptr(4),
                     hb2 |-> ptr(5),
                     att |-> ptr(9),
                     logits |-> ptr(10),
                     key_cache |-> ptr(11),
                     value_cache |-> ptr(12)],
         trap |-> r.trap]

\* W_OFFSET(ptr): the float index of ptr from arena->base, cast to u32.
W_OFFSET(a, ptr) == u32(size_t(ptr - a.base) \div SIZEOF_f32)

\* ptr + n on a f32 pointer.
f32_add(ptr, n) == ptr + n * SIZEOF_f32

\* A slip that steps the key projection by the stride of the query's.
wk_layer_dim(p, l) == l * p.dim * p.dim

\* l * kv_dim * dim of lines 81 and 83.
wk_layer(p, l) == l * kv_dim(p) * p.dim

MatMul(tensor, l, weight_offset, n, d) ==
    [d |-> d,
     n |-> n,
     l |-> l,
     tensor |-> tensor,
     weight_offset |-> weight_offset]

\* The MatMul dispatches of layer l, and the classifier's.
LayerMatMuls(a, p, w, l) ==
    { MatMul("wq", l, W_OFFSET(a, f32_add(w.wq, l * p.dim * p.dim)),
             p.dim, p.dim),
      MatMul("wk", l, W_OFFSET(a, f32_add(w.wk, wk_layer(p, l))),
             p.dim, kv_dim(p)),
      MatMul("wv", l, W_OFFSET(a, f32_add(w.wv, l * kv_dim(p) * p.dim)),
             p.dim, kv_dim(p)),
      MatMul("wo", l, W_OFFSET(a, f32_add(w.wo, l * p.dim * p.dim)),
             p.dim, p.dim),
      MatMul("w1", l, W_OFFSET(a, f32_add(w.w1, l * p.dim * p.hidden_dim)),
             p.dim, p.hidden_dim),
      MatMul("w3", l, W_OFFSET(a, f32_add(w.w3, l * p.dim * p.hidden_dim)),
             p.dim, p.hidden_dim),
      MatMul("w2", l, W_OFFSET(a, f32_add(w.w2, l * p.hidden_dim * p.dim)),
             p.hidden_dim, p.dim) }

ForwardMatMuls(a, p, w) ==
    UNION { LayerMatMuls(a, p, w, l) : l \in 0 .. (p.n_layers - 1) }
    \cup { MatMul("wcls", 0, W_OFFSET(a, w.wcls), p.dim, p.vocab_size) }

\* Lines 102-142 for layer l: the row of the key cache written at pos, the
\* floats of the key cache read for every head and every t <= pos, and the
\* scores written to att.  The value cache is addressed the same way.
KvTag(emb, l, pos) == [l |-> l, emb |-> emb, pos |-> pos]

ForwardLayer(p, st, emb, l, pos) ==
    LET loff == l * p.seq_len * kv_dim(p)
        row == loff + pos * kv_dim(p)
        written == row .. (row + kv_dim(p) - 1)
        kmem == [c \in DOMAIN st.kmem |->
                    IF c \in written THEN KvTag(emb, l, pos) ELSE st.kmem[c]]
        heads == 0 .. (p.n_heads - 1)
    IN  [kmem |-> kmem,
         kwrites |-> st.kwrites \cup
            { [idx |-> c, l |-> l, pos |-> pos] : c \in written },
         kreads |-> st.kreads \cup
            { [idx |-> loff + x[2] * kv_dim(p)
                       + (x[1] \div kv_mul(p)) * head_size(p) + x[3],
               t |-> x[2],
               l |-> l,
               pos |-> pos,
               tag |-> kmem[loff + x[2] * kv_dim(p)
                            + (x[1] \div kv_mul(p)) * head_size(p) + x[3]]] :
              x \in heads \X (0 .. pos) \X (0 .. (head_size(p) - 1)) },
         att_writes |-> st.att_writes \cup
            { [idx |-> x[1] * p.seq_len + x[2], pos |-> pos, h |-> x[1]] :
              x \in heads \X (0 .. pos) }]

RECURSIVE ForwardLayers(_, _, _, _, _)
ForwardLayers(p, st, emb, l, pos) ==
    IF l >= p.n_layers THEN st
    ELSE ForwardLayers(p, ForwardLayer(p, st, emb, l, pos), emb, l + 1, pos)

\* LLM__Forward(s, p, w, token, pos, vk_ctx, arena), on the parts of the
\* state the positions and the weight offsets touch.
LLM__Forward(a, rs, pos) ==
    LET st == ForwardLayers(rs.p,
                  [kmem |-> rs.kmem, kwrites |-> rs.kwrites,
                   kreads |-> rs.kreads, att_writes |-> rs.att_writes],
                  rs.emb, 0, pos)
    IN  [rs EXCEPT !.kmem = st.kmem, !.kwrites = st.kwrites,
                   !.kreads = st.kreads, !.att_writes = st.att_writes,
                   !.calls = Append(@, pos),
                   !.matmuls = @ \cup ForwardMatMuls(a, rs.p, rs.w)]

\* The loop of embed_text_llm: LLM__Forward(tokens[i], i) for i < n_tokens.
RECURSIVE embed_loop(_, _, _, _)
embed_loop(a, rs, i, n_tokens) ==
    IF i >= n_tokens THEN rs
    ELSE embed_loop(a, LLM__Forward(a, rs, i), i + 1, n_tokens)

\* embed_text_llm on a text Tokenizer__Encode turns into n_tokens tokens.
\* calls, kwrites, kreads, att_writes and matmuls record what this
\* embedding did; kmem is the key cache as the embeddings so far left it.
embed_text_llm(a, rs, n_tokens) ==
    embed_loop(a, [rs EXCEPT !.emb = @ + 1, !.n_tokens = n_tokens,
                             !.calls = <<>>, !.kwrites = {}, !.kreads = {},
                             !.att_writes = {}, !.matmuls = {}],
               0, n_tokens)

ModelBases == {0, 64}

InitLLM(base, p, remaining) ==
    /\ op = "init"
    /\ \E ld \in {LLM__Load(Arena__Init(base, LLM_ARENA_SIZE), p, remaining)} :
       \E st \in {IF ld.trap THEN ld ELSE LLM__InitState(ld.arena, p)} :
         IF st.trap
         THEN /\ op' = "trap"
              /\ arena' = st.arena
              /\ UNCHANGED <<run_state, gpu>>
         ELSE /\ op' = "Init_LLM"
              /\ arena' = st.arena
              /\ gpu' = [weights |->
                           LLM_VulkanCtx__UploadWeights(ld.arena.base,
                                                        ld.arena.used)]
              /\ run_state' = [s |-> st.s,
                               p |-> p,
                               n_tokens |-> 0,
                               emb |-> 0,
                               w |-> ld.weights,
                               kmem |-> [c \in KvCells(p) |-> NoTag],
                               kwrites |-> {},
                               kreads |-> {},
                               att_writes |-> {},
                               calls |-> <<>>,
                               matmuls |-> {}]
    /\ args' = <<p, remaining>> /\ results' = <<>>
    /\ UNCHANGED <<idxFile, txtFile, metaFile, index, ts, ms, index0, ts0, ms0,
                   prevFiles, exitCode, out, err, tokenizer>>

Embed(n_tokens) ==
    /\ op \in {"Init_LLM", "embed_text_llm"}
    /\ run_state.emb < MaxEmbeddings
    /\ run_state' = embed_text_llm(arena, run_state, n_tokens)
    /\ op' = "embed_text_llm" /\ args' = <<n_tokens>> /\ results' = <<>>
    /\ UNCHANGED <<idxFile, txtFile, metaFile, index, ts, ms, index0, ts0, ms0,
                   prevFiles, exitCode, out, err, tokenizer, arena, gpu>>

NextLLM ==
    \/ \E base \in ModelBases, p \in Configs :
         \E remaining \in Remainings(p) : InitLLM(base, p, remaining)
    \/ \E n_tokens \in 0 .. MaxTokens : Embed(n_tokens)

SpecLLM == Init /\ [][NextLLM]_vars


\* The floats [lo, hi) of a layer's rows in the key cache, and of a head's
\* row in att.
KvLayerRows(p, l) ==
    (l * p.seq_len * kv_dim(p)) .. ((l + 1) * p.seq_len * kv_dim(p) - 1)
AttHeadRow(p, h) == (h * p.seq_len) .. ((h + 1) * p.seq_len - 1)

\* C23: embed_text_llm calls LLM__Forward once per token, at the positions
\* 0, 1, 2, ... in order, every one of them below seq_len, and no write of
\* the key/value cache or of att leaves the seq_len rows of its layer (of
\* its head).
C23_ForwardPositions ==
    op = "embed_text_llm" =>
        LET rs == run_state
        IN  /\ rs.calls = [i \in 1 .. rs.n_tokens |-> i - 1]
            /\ \A i \in DOMAIN rs.calls :
                 0 <= rs.calls[i] /\ rs.calls[i] < rs.p.seq_len
            /\ \A wr \in rs.kwrites : wr.idx \in KvLayerRows(rs.p, wr.l)
            /\ \A aw \in rs.att_writes : aw.idx \in AttHeadRow(rs.p, aw.h)

\* The same for the texts of at most seq_len tokens.
C23_ForwardPositionsWithinContext ==
    (op = "embed_text_llm" /\ run_state.n_tokens <= run_state.p.seq_len) =>
        C23_ForwardPositions

\* C24: during one embedding every float of the key/value cache LLM__Forward
\* reads is a slot t <= pos of the layer being computed, and was written by
\* a forward call of this embedding at position t for that layer; nothing an
\* earlier embedding left is read.
C24_ReadsOwnSlots ==
    op = "embed_text_llm" =>
        \A rd \in run_state.kreads :
            /\ rd.t \in 0 .. rd.pos
            /\ rd.idx \in KvLayerRows(run_state.p, rd.l)
            /\ rd.tag = KvTag(run_state.emb, rd.l, rd.t)

\* The same for the texts of at most seq_len tokens.
C24_ReadsOwnSlotsWithinContext ==
    (op = "embed_text_llm" /\ run_state.n_tokens <= run_state.p.seq_len) =>
        C24_ReadsOwnSlots

\* The floats of the tensor LLM__Load pushed k-th, counted from arena->base:
\* the whole tensor, or the block of layer l of a tensor of n_layers blocks.
TensorFloats(a, k) ==
    LET lo == (a.live[k].ptr - a.base) \div SIZEOF_f32
    IN  [lo |-> lo, hi |-> lo + a.live[k].len \div SIZEOF_f32]

LayerBlock(a, p, k, l) ==
    LET t == TensorFloats(a, k)
        n == (t.hi - t.lo) \div p.n_layers
    IN  [lo |-> t.lo + l * n, hi |-> t.lo + (l + 1) * n]

IntendedBlock(a, rs, m) ==
    CASE m.tensor = "wq" -> LayerBlock(a, rs.p, 3, m.l)
      [] m.tensor = "wk" -> LayerBlock(a, rs.p, 4, m.l)
      [] m.tensor = "wv" -> LayerBlock(a, rs.p, 5, m.l)
      [] m.tensor = "wo" -> LayerBlock(a, rs.p, 6, m.l)
      [] m.tensor = "w1" -> LayerBlock(a, rs.p, 8, m.l)
      [] m.tensor = "w2" -> LayerBlock(a, rs.p, 9, m.l)
      [] m.tensor = "w3" -> LayerBlock(a, rs.p, 10, m.l)
      [] m.tensor = "wcls" ->
            IF rs.w.wcls = rs.w.token_embedding_table
            THEN TensorFloats(a, 1) ELSE TensorFloats(a, 12)

\* C29: every MatMul LLM__Forward dispatches addresses the floats
\* [weight_offset, weight_offset + n*d) of the block LLM__Load laid out for
\* that tensor and layer (the whole classifier, tied or not), and those
\* floats are inside the bytes Init_LLM uploaded from arena->base.
C29_WeightSlices ==
    op = "embed_text_llm" =>
        \A m \in run_state.matmuls :
            LET blk == IntendedBlock(arena, run_state, m)
            IN  /\ blk.lo <= m.weight_offset
                /\ m.weight_offset + m.n * m.d <= blk.hi
                /\ gpu.weights.data = arena.base
                /\ (m.weight_offset + m.n * m.d) * SIZEOF_f32
                      <= gpu.weights.size

C29_Witness ==
    /\ op = "embed_text_llm"
    /\ run_state.n_tokens >= 1
    /\ run_state.p.n_layers >= 2
    /\ run_state.p.n_kv_heads < run_state.p.n_heads
    /\ run_state.w.wcls # run_state.w.token_embedding_table
    /\ \E m \in run_state.matmuls : m.tensor = "wk" /\ m.l = 1
    /\ \E m \in run_state.matmuls : m.tensor = "wcls"


(***************************************************************************)
(* The GPU submissions: LLM_VulkanCtx__UploadWeights (staging copy) and    *)
(* LLM_VulkanCtx__MatMul of src/src/vulkan_ctx.c, Vulkan_Dispatch of       *)
(* src/src/vulkan_backend.c called by VDB_Search.  The CPU goes through    *)
(* the Vulkan calls of one of them at a time; the GPU completes a          *)
(* submission when it likes.  No VkResult of a submit or of a wait is      *)
(* looked at by the code, so a call that returns an error is followed by   *)
(* the next statement.                                                     *)
(***************************************************************************)
MaxSubmissions == 3

VK_SUCCESS == "VK_SUCCESS"
VK_ERROR_DEVICE_LOST == "VK_ERROR_DEVICE_LOST"
VkResults == {VK_SUCCESS, VK_ERROR_DEVICE_LOST}

GpuKinds == {"staging", "MatMul", "Similarity"}

\* The queue a submission goes to: compute_queue of the LLM context, queue
\* of the search context.
QueueOf(kind) == IF kind = "Similarity" THEN "queue" ELSE "compute_queue"

\* Whether a submission that uses the buffers and the command buffer of
\* this kind of dispatch is in flight.  UploadWeights creates its staging
\* buffer and its command buffer anew, so no earlier submission uses them.
Busy(g, kind) == \E s \in g.inflight : s.kind = kind /\ s.id # g.n

BusyNow(g) == \E s \in g.inflight : s.kind = g.kind

\* LLM_VulkanCtx__PrepareBuffers: the fence is created signaled.
GpuInit ==
    /\ op = "init"
    /\ gpu' = [err |-> FALSE,
               n |-> 0,
               kind |-> "none",
               inflight |-> {},
               pc |-> "idle",
               fence |-> "signaled",
               any_err |-> FALSE,
               hazards |-> {}]
    /\ op' = "PrepareBuffers" /\ args' = <<>> /\ results' = <<>>
    /\ UNCHANGED <<idxFile, txtFile, metaFile, index, ts, ms, index0, ts0, ms0,
                   prevFiles, exitCode, out, err, tokenizer, arena, run_state>>

\* The CPU writes the input of the dispatch: memcpy(ctx->input_mapped, x)
\* of MatMul, Vulkan_UploadIndex and Vulkan_UploadQuery of VDB_Search,
\* memcpy into the new staging buffer of UploadWeights.
CpuStage(kind) ==
    /\ op # "init" /\ gpu.pc = "idle" /\ gpu.n < MaxSubmissions
    /\ gpu' = [gpu EXCEPT !.pc = "staged", !.kind = kind, !.n = @ + 1,
                          !.err = FALSE,
                          !.hazards = @ \cup
                             (IF kind # "staging" /\ Busy(gpu, kind)
                              THEN {"input overwritten"} ELSE {})]
    /\ op' = "CpuStage" /\ args' = <<kind>> /\ results' = <<>>
    /\ UNCHANGED <<idxFile, txtFile, metaFile, index, ts, ms, index0, ts0, ms0,
                   prevFiles, exitCode, out, err, tokenizer, arena, run_state>>

\* The CPU records the command buffer.  MatMul first waits for its fence
\* (the wait returns VK_SUCCESS once the fence is signaled, or an error),
\* resets it and resets the command buffer; Vulkan_Dispatch begins its one
\* command buffer again; UploadWeights allocates a new one.
CpuRecord(res) ==
    /\ op # "init" /\ gpu.pc = "staged"
    /\ IF gpu.kind = "MatMul"
       THEN res = VK_SUCCESS => gpu.fence = "signaled"
       ELSE res = VK_SUCCESS
    /\ gpu' = [gpu EXCEPT !.pc = "recorded",
                          !.fence = IF gpu.kind = "MatMul" THEN "unsignaled"
                                    ELSE @,
                          !.any_err = @ \/ res # VK_SUCCESS,
                          !.hazards = @ \cup
                             (IF gpu.kind # "staging" /\ BusyNow(gpu)
                              THEN {"command buffer recorded again"}
                              ELSE {})]
    /\ op' = "CpuRecord" /\ args' = <<res>> /\ results' = <<>>
    /\ UNCHANGED <<idxFile, txtFile, metaFile, index, ts, ms, index0, ts0, ms0,
                   prevFiles, exitCode, out, err, tokenizer, arena, run_state>>

\* vkQueueSubmit: on VK_SUCCESS the submission is in flight; the result is
\* not looked at.
CpuSubmit(res) ==
    /\ op # "init" /\ gpu.pc = "recorded"
    /\ gpu' = [gpu EXCEPT !.pc = "submitted",
                          !.inflight = IF res = VK_SUCCESS
                                       THEN @ \cup {[id |-> gpu.n,
                                                     kind |-> gpu.kind]}
                                       ELSE @,
                          !.err = res # VK_SUCCESS,
                          !.any_err = @ \/ res # VK_SUCCESS,
                          !.hazards = @ \cup
                             (IF res = VK_SUCCESS /\ gpu.inflight # {}
                              THEN {"second submission"} ELSE {})]
    /\ op' = "CpuSubmit" /\ args' = <<res>> /\ results' = <<>>
    /\ UNCHANGED <<idxFile, txtFile, metaFile, index, ts, ms, index0, ts0, ms0,
                   prevFiles, exitCode, out, err, tokenizer, arena, run_state>>

\* The GPU finishes a submission; one of MatMul signals the fence.
GpuComplete ==
    /\ op # "init"
    /\ \E s \in gpu.inflight :
         gpu' = [gpu EXCEPT !.inflight = @ \ {s},
                            !.fence = IF s.kind = "MatMul" THEN "signaled"
                                      ELSE @]
    /\ op' = "GpuComplete" /\ args' = <<>> /\ results' = <<>>
    /\ UNCHANGED <<idxFile, txtFile, metaFile, index, ts, ms, index0, ts0, ms0,
                   prevFiles, exitCode, out, err, tokenizer, arena, run_state>>

\* vkWaitForFences(fence, UINT64_MAX) of MatMul, vkQueueWaitIdle of the two
\* others: VK_SUCCESS once the fence is signaled (once the queue is idle),
\* or an error; the result is not looked at.
CpuWait(res) ==
    /\ op # "init" /\ gpu.pc = "submitted"
    /\ res = VK_SUCCESS =>
          IF gpu.kind = "MatMul" THEN gpu.fence = "signaled"
          ELSE \A s \in gpu.inflight : QueueOf(s.kind) # QueueOf(gpu.kind)
    /\ gpu' = [gpu EXCEPT !.pc = "waited",
                          !.err = @ \/ res # VK_SUCCESS,
                          !.any_err = @ \/ res # VK_SUCCESS]
    /\ op' = "CpuWait" /\ args' = <<res>> /\ results' = <<>>
    /\ UNCHANGED <<idxFile, txtFile, metaFile, index, ts, ms, index0, ts0, ms0,
                   prevFiles, exitCode, out, err, tokenizer, arena, run_state>>

\* The CPU reads the result: memcpy(xout, ctx->output_mapped) of MatMul,
\* Vulkan_DownloadScores of VDB_Search; UploadWeights frees the command
\* buffer and destroys the staging buffer.
CpuRead ==
    /\ op # "init" /\ gpu.pc = "waited"
    /\ gpu' = [gpu EXCEPT !.pc = "idle",
                          !.hazards = @ \cup
                             (IF BusyNow(gpu) THEN {"output read"} ELSE {})]
    /\ op' = "CpuRead" /\ args' = <<>> /\ results' = <<>>
    /\ UNCHANGED <<idxFile, txtFile, metaFile, index, ts, ms, index0, ts0, ms0,
                   prevFiles, exitCode, out, err, tokenizer, arena, run_state>>

NextGpu ==
    \/ GpuInit
    \/ \E kind \in GpuKinds : CpuStage(kind)
    \/ \E res \in VkResults : CpuRecord(res)
    \/ \E res \in VkResults : CpuSubmit(res)
    \/ GpuComplete
    \/ \E res \in VkResults : CpuWait(res)
    \/ CpuRead

SpecGpu == Init /\ [][NextGpu]_vars

\* C25: at most one GPU submission is in flight, and the CPU does not read
\* the output or the scores, overwrite the input, index or query buffer,
\* record the command buffer again or submit again while a submission is in
\* flight.
C25_OneSubmissionInFlight ==
    op # "init" =>
        /\ Cardinality(gpu.inflight) <= 1
        /\ gpu.hazards = {}

\* The same for the runs in which no submit and no wait returned an error.
C25_OneSubmissionInFlightWithoutError ==
    (op # "init" /\ ~gpu.any_err) => C25_OneSubmissionInFlight

\* C26: the output of a MatMul and the scores of a Similarity dispatch are
\* not read after the submit or the wait of that dispatch returned an error
\* (the process has aborted before).
C26_NoReadAfterError ==
    (op = "CpuRead" /\ gpu.kind \in {"MatMul", "Similarity"}) => ~gpu.err


\* C30: recall changes nothing stored: the index file, the text file and the
\* metadata file are as before the command, and the index (count, ids,
\* vectors) and the text store are, after VDB_Search, what load_state read.
C30_RecallChangesNothing ==
    op = "recall" =>
        /\ <<idxFile, txtFile, metaFile>> = prevFiles
        /\ index = index0
        /\ ts = ts0

C30_Witness ==
    /\ op = "recall"
    /\ results.called
    /\ idxFile.exists /\ txtFile.exists
    /\ index.count > 0 /\ ts.count > 0

\* VDB_Search called with any query, k and mask leaves the index and the
\* text store as they were.
C30_SearchLeavesIndex ==
    op = "search" => (index = index0 /\ ts = ts0)
====
